---- MODULE Spec2Model ----
(***************************************************************************)
(* haink Master DB: the import / admin-create persistence transactions     *)
(* (scripts/import, apps/admin/app/api/products/route.ts) and the master   *)
(* code push batch (scripts/push-mastercode-to-imweb.ts).                  *)
(*                                                                         *)
(*   SpecTx    concurrent importRow / POST transactions on one database    *)
(*   Spec      one run of the push batch: selection, p-limit, RateLimiter, *)
(*             retry, per-item outcome                                     *)
(*   SpecRetry one real run with every retry count up to the default       *)
(*   SpecRerun the push batch run twice with the same options              *)
(*   SpecMixed one push run, dry or real, with an empty master code         *)
(*   SpecImport one run of the import script: parseRow, importRow, report  *)
(*   SpecCategories parseCategoryIds applied to one cell                   *)
(*   SpecCanon canonicalizeOptionValue applied once and again              *)
(*   SpecClient HttpImwebClient under concurrent updateProductCode calls   *)
(*   SpecClientLive the same with a running event loop                     *)
(*   SpecConfig createImwebClient under every configuration                *)
(*   SpecPrice parsePrice applied to one cell                              *)
(*   SpecAdmin an import run with admin POST and PUT requests beside it    *)
(***************************************************************************)
EXTENDS Integers, Sequences, FiniteSets, TLC

\* ------------------------------------------------------------------------
\* Bounds of the model
\* ------------------------------------------------------------------------
MaxTx == 2
MaxMaps == 3
MaxRetries == 1
MaxTicks == 1
MaxFaults == 1

\* ------------------------------------------------------------------------
\* Shared helpers
\* ------------------------------------------------------------------------
NULL == -1

Max(a, b) == IF a >= b THEN a ELSE b

Min(a, b) == IF a <= b THEN a ELSE b

\* ------------------------------------------------------------------------
\* Persistence state (PostgreSQL behind Prisma) and the transactions on it
\* ------------------------------------------------------------------------
VARIABLES
  counter,      \* CodeSequenceByCategory: category -> committed last_seq, NULL = no row
  prior,        \* counter as it stood before the modelled transactions (never written)
  seqLock,      \* category -> transaction holding the counter row's write lock, 0 = free
  products,     \* committed Product rows: [id, master_code]
  maps,         \* committed ExternalProductMap rows of system IMWEB: [external_id, product_id]
  tx            \* transaction -> [pc, kind, cat, ext, seq, result]

txVars == <<counter, prior, seqLock, products, maps, tx>>

\* The push batch (scripts/push-mastercode-to-imweb.ts)
VARIABLES
  cfg,            \* PushCliArgs: [dryRun, concurrency, retries, backoffMs, rateLimit, limit, onlyUnsynced]
  emaps,          \* ExternalProductMap rows of system IMWEB, in created_at order:
                  \*   id -> [dir, at, sot, masterCode]
  before,         \* emaps as the current run's findMany read them
  run,            \* number of runs of main() started so far
  main,           \* main(): "none" | "running" | "done" (its try block ended) | "failed" (its catch)
  targets,        \* the run's findMany result, a sequence of ids
  queue,          \* p-limit: tasks not yet started, in order
  item,           \* id -> state of processSingle / runWithRetry for that target in this run
  nextAvailable,  \* RateLimiter.nextAvailable
  now,            \* Date.now()
  ticks,          \* unit steps of the clock taken so far
  report,         \* the run's JSONL file: id -> statuses of the lines written for it, in order
  success,        \* main's success counter
  failure,        \* main's failure counter
  faults,         \* database and file-system calls that have thrown so far
  planned,        \* how many times the operator runs the script
  prev            \* id -> how the previous run's processSingle ended for it ("none" if it had none)

pushVars == <<cfg, emaps, before, run, main, targets, queue, item, nextAvailable, now,
              ticks, report, success, failure, faults, planned, prev>>

\* parseCategoryIds on its own
VARIABLES
  catRaw,         \* the argument
  catResult       \* NotCalled before the call, then what the call gave

catVars == <<catRaw, catResult>>

\* The import script's main()
VARIABLES
  rows,           \* loadImwebExcelRows' result: the rows of the sheet
  readable,       \* whether loadImwebExcelRows returns (FALSE: it throws)
  allowExisting,  \* --allow-existing
  index,          \* the loop's index: rows handled so far
  imain,          \* main(): "none" | "loop" | "ended"
  ireport,        \* report: ImportReport, and whether writeReport wrote it
  exitCode,       \* process.exitCode
  rtx,            \* importRow's transaction for rows[index]: what it read and wrote so far
  dbBefore,       \* counter, products and maps when the current row was begun
  rowlog          \* how each handled row ended, in the order handled

runVars == <<rows, readable, allowExisting, index, imain, ireport, exitCode, rtx, dbBefore,
             rowlog>>

\* canonicalizeOptionValue applied twice
VARIABLES
  canonIn,        \* the string
  canonOnce,      \* NotCalled, then canonicalizeOptionValue(canonIn)
  canonTwice      \* NotCalled, then canonicalizeOptionValue of canonOnce

canonVars == <<canonIn, canonOnce, canonTwice>>

\* HttpImwebClient and the updateProductCode calls made on it
VARIABLES
  cachedToken,    \* this.cachedToken
  inflightToken,  \* this.inflightToken: 0, or the number of the token request it waits for
  tokenReqs,      \* the token requests made so far, by number
  call,           \* the updateProductCode calls, by caller
  cnow            \* Date.now()

clientVars == <<cachedToken, inflightToken, tokenReqs, call, cnow>>

\* createImwebClient (src/lib/imwebClient.ts)
VARIABLES
  env,                      \* process.env: the IMWEB_API_* variables and NODE_ENV
  created,                  \* what createImwebClient() gave, NotCalled before the call
  warnedMissingCredentials  \* the module's warn-once flag

envVars == <<env, created, warnedMissingCredentials>>

\* parsePrice applied to one cell
VARIABLES
  priceCell,    \* the 판매가 cell
  priceResult   \* what parsePrice gave, NotCalled before the call

priceVars == <<priceCell, priceResult>>

\* The admin API (apps/admin/app/api/products)
VARIABLES
  adminLog      \* the POST and PUT requests handled so far: [op, id, form, status]

adminVars == <<adminLog>>

auxVars == <<canonVars, clientVars, envVars, priceVars, adminVars>>

\* What the steps of one part leave alone of the other parts.
notCanon == <<txVars, pushVars, catVars, runVars, clientVars, envVars, priceVars, adminVars>>

notClient == <<txVars, pushVars, catVars, runVars, canonVars, envVars, priceVars, adminVars>>

\* What parsePrice leaves alone.
notPrice == <<txVars, pushVars, catVars, runVars, canonVars, clientVars, envVars, adminVars>>

\* What createImwebClient leaves alone.
notEnv == <<txVars, pushVars, catVars, runVars, canonVars, clientVars, priceVars, adminVars>>

libVars == <<catVars, auxVars>>

impVars == <<libVars, runVars>>

vars == <<txVars, pushVars, impVars>>

Cats == {"CATE9", "CATE44"}
CatNo(c) == IF c = "CATE9" THEN 1 ELSE 2
\* A category's counter before the transactions: no row yet, or a row that has issued.
PriorSeqs == {NULL, 1}
Txns == 1..MaxTx
\* External product ids: 0 is the one that may already be mapped; the others are new.
Exts == 0..MaxTx

IdleTx == [pc |-> "idle", kind |-> "none", cat |-> "CATE9", ext |-> 0,
           seq |-> 0, result |-> "none"]

\* Transactions are started in the order of their numbers, and a new external id is
\* the smallest one no transaction has used: which number a transaction or an id
\* carries changes nothing.
MayBegin(t) == tx[t].pc = "idle" /\ (IF t = 1 THEN TRUE ELSE tx[t - 1].pc # "idle")

UsedExts == {tx[u].ext : u \in Txns} \cup {m.external_id : m \in maps} \cup {0}

ExtChoices == {e \in Exts : e \in UsedExts \/ e - 1 \in UsedExts}

\* {categoryId}-{sequence zero-padded to 5 digits}: the category and the number
\* determine the string and the string determines both, so the pair stands for it.
FormatMasterCode(cat, seq) == <<cat, seq>>

\* CodeIssuer: no counter row -> the row is created at 1; otherwise last_seq + 1.
\* The upsert runs inside the caller's transaction and holds the row's lock to its end.
IssuerLostUpdate(cat) == TRUE

IssuerCanWrite(cat) == seqLock[cat] = 0

\* An issuer whose first issuance of a category is 0.
StartsAtZero(cat) == IF counter[cat] = NULL THEN 0 ELSE counter[cat] + 1

NextSeq(cat) == IF counter[cat] = NULL THEN 1 ELSE counter[cat] + 1

\* importRow's own lookup: tx.product.findUnique({ where: { master_code } }).
CollisionUnseen(code) == FALSE

MasterCodeCollision(code) == \E p \in products : p.master_code = code

\* Product.master_code is a unique column: an insert of a code that a committed row
\* holds is refused, and one that another transaction has inserted but not yet
\* committed waits for that transaction.
UniqueNotEnforced(code) == TRUE

MasterCodeFree(code) == \A p \in products : p.master_code # code

MasterCodePending(t, code) ==
  \E u \in Txns : u # t /\ tx[u].pc = "created"
                        /\ FormatMasterCode(tx[u].cat, tx[u].seq) = code

\* ExternalProductMap (system, external_id) is a unique pair.
ExternalIdFree(ext) == \A m \in maps : m.external_id # ext

\* An index that lets an insert through while another transaction's insert of the
\* same key is still uncommitted.
InsertNeverWaits(t, ext) == FALSE

\* An uncommitted insert of the same key by another transaction blocks the insert.
ExternalIdPending(t, ext) ==
  \E u \in Txns : u # t /\ tx[u].pc = "created" /\ tx[u].ext = ext

Rollback(t, why) ==
  /\ tx' = [tx EXCEPT ![t] = [IdleTx EXCEPT !.pc = "aborted", !.result = why]]
  /\ seqLock' = [c \in Cats |-> IF seqLock[c] = t THEN 0 ELSE seqLock[c]]
  /\ UNCHANGED <<counter, prior, products, maps>>

\* importRow: prisma.$transaction(async (tx) => ...
ImportBegin(t) ==
  /\ MayBegin(t)
  /\ \E c \in Cats, e \in ExtChoices :
       tx' = [tx EXCEPT ![t] = [IdleTx EXCEPT !.pc = "find", !.kind = "import",
                                              !.cat = c, !.ext = e]]
  /\ UNCHANGED <<counter, prior, seqLock, products, maps>>
  /\ UNCHANGED <<pushVars, impVars>>

\* POST /api/products: prisma.$transaction(async (tx) => ...
PostBegin(t) ==
  /\ MayBegin(t)
  /\ \E c \in Cats, e \in ExtChoices :
       tx' = [tx EXCEPT ![t] = [IdleTx EXCEPT !.pc = "find", !.kind = "post",
                                              !.cat = c, !.ext = e]]
  /\ UNCHANGED <<counter, prior, seqLock, products, maps>>
  /\ UNCHANGED <<pushVars, impVars>>

\* importRow: the lookup of the (IMWEB, productId) mapping and its two outcomes.
ImportFindExisting(t) ==
  /\ tx[t].pc = "find" /\ tx[t].kind = "import"
  /\ IF ~ExternalIdFree(tx[t].ext)
       THEN \E allow \in BOOLEAN :
              IF ~allow
                THEN Rollback(t, "EXISTS")
                ELSE /\ tx' = [tx EXCEPT ![t] = [IdleTx EXCEPT !.pc = "committed",
                                                               !.result = "skipped"]]
                     /\ UNCHANGED <<counter, prior, seqLock, products, maps>>
       ELSE /\ tx' = [tx EXCEPT ![t].pc = "issue"]
            /\ UNCHANGED <<counter, prior, seqLock, products, maps>>
  /\ UNCHANGED <<pushVars, impVars>>

\* POST: the same lookup; an existing mapping is an error.
PostFindExisting(t) ==
  /\ tx[t].pc = "find" /\ tx[t].kind = "post"
  /\ IF ~ExternalIdFree(tx[t].ext)
       THEN Rollback(t, "ERROR")
       ELSE /\ tx' = [tx EXCEPT ![t].pc = "issue"]
            /\ UNCHANGED <<counter, prior, seqLock, products, maps>>
  /\ UNCHANGED <<pushVars, impVars>>

\* codeIssuer.issueMasterCode(tx, issuedCategoryId) / codeIssuer.issue(tx, issuedCategoryId)
Issue(t) ==
  /\ tx[t].pc = "issue"
  /\ IssuerCanWrite(tx[t].cat)
  /\ seqLock' = [seqLock EXCEPT ![tx[t].cat] = IF seqLock[tx[t].cat] = 0 THEN t ELSE @]
  /\ tx' = [tx EXCEPT ![t].seq = NextSeq(tx[t].cat),
                      ![t].pc = IF tx[t].kind = "import" THEN "check" ELSE "create"]
  /\ UNCHANGED <<counter, prior, products, maps>>
  /\ UNCHANGED <<pushVars, impVars>>

\* importRow: tx.product.findUnique({ where: { master_code } }) after the issue.
ImportCheckCollision(t) ==
  /\ tx[t].pc = "check"
  /\ IF MasterCodeCollision(FormatMasterCode(tx[t].cat, tx[t].seq))
       THEN Rollback(t, "MASTER_CODE_COLLISION")
       ELSE /\ tx' = [tx EXCEPT ![t].pc = "create"]
            /\ UNCHANGED <<counter, prior, seqLock, products, maps>>
  /\ UNCHANGED <<pushVars, impVars>>

\* tx.product.create with the nested externalProductMaps.create: both unique
\* constraints are checked by the database; a violation fails the transaction.
ProductCreate(t) ==
  /\ tx[t].pc = "create"
  /\ ~MasterCodePending(t, FormatMasterCode(tx[t].cat, tx[t].seq))
  /\ ~ExternalIdPending(t, tx[t].ext)
  /\ IF ~MasterCodeFree(FormatMasterCode(tx[t].cat, tx[t].seq))
       THEN Rollback(t, "P2002_master_code")
       ELSE IF ~ExternalIdFree(tx[t].ext)
              THEN Rollback(t, "P2002_external_id")
              ELSE /\ tx' = [tx EXCEPT ![t].pc = "created"]
                   /\ UNCHANGED <<counter, prior, seqLock, products, maps>>
  /\ UNCHANGED <<pushVars, impVars>>

\* The transaction callback returned: everything it wrote is committed together.
TxCommit(t) ==
  /\ tx[t].pc = "created"
  /\ products' = products \cup
       {[id |-> t, master_code |-> FormatMasterCode(tx[t].cat, tx[t].seq)]}
  /\ maps' = maps \cup {[external_id |-> tx[t].ext, product_id |-> t]}
  /\ counter' = [counter EXCEPT ![tx[t].cat] = tx[t].seq]
  /\ seqLock' = [c \in Cats |-> IF seqLock[c] = t THEN 0 ELSE seqLock[c]]
  /\ tx' = [tx EXCEPT ![t].pc = "committed", ![t].result = "created"]
  /\ UNCHANGED prior
  /\ UNCHANGED <<pushVars, impVars>>

\* The interactive transaction's timeout (60000 ms in importRow): it is rolled back.
TxTimeout(t) ==
  /\ tx[t].pc \in {"find", "issue", "check", "create", "created"}
  /\ Rollback(t, "TIMEOUT")
  /\ UNCHANGED <<pushVars, impVars>>

\* ------------------------------------------------------------------------
\* The push batch: scripts/push-mastercode-to-imweb.ts
\* ------------------------------------------------------------------------
\* Defaults and floors of the CLI options.
DefaultRetries == 3
DefaultBackoffMs == 500
MinBackoffMs == 100
DefaultRateLimit == 5

Ids == 1..MaxMaps

\* attempts: calls of updateProductCode; delays: the sleeps runWithRetry asked for;
\* slot: the start RateLimiter.wait gave the caller; released: when wait() returned;
\* wake: when the pending sleep is due; err: the step that threw.
NoItem == [pc |-> "none", attempts |-> 0, delays |-> <<>>, wake |-> NULL,
           err |-> "none", slot |-> NULL, released |-> NULL]

ActivePcs == {"sleeping", "calling", "backoff", "update", "append", "catch"}
SettledPcs == {"success", "error", "rejected"}

\* Math.ceil(1000 / eventsPerSecond)
MinInterval(eventsPerSecond) == (1000 + eventsPerSecond - 1) \div eventsPerSecond

SlotAfterInterval(next, t) == Max(next, t) + MinInterval(cfg.rateLimit)

\* RateLimiter.wait: the slot the caller is given, and nextAvailable after it.
WaitUntil(next, t) == Max(next, t)

ReserveSameSlot(next, t) == WaitUntil(next, t)

\* A reservation that overwrites the clock from the caller's own time.
ReserveFromNow(next, t) == t + MinInterval(cfg.rateLimit)

Reserve(next, t) == WaitUntil(next, t) + MinInterval(cfg.rateLimit)

\* runWithRetry: give up when attempt >= retries; otherwise sleep backoffMs * 2 ** attempt.
ExhaustedLate(attempt, retries) == attempt > retries

RetryExhausted(attempt, retries) == attempt >= retries

LinearBackoff(backoffMs, attempt) == backoffMs * (attempt + 1)

BackoffDelay(backoffMs, attempt) == backoffMs * 2 ^ attempt

\* findMany's where clause. SQL's "<> 'PUSH'" is not true of a null, hence the null test.
Eligible(m, onlyUnsynced) ==
  \/ ~onlyUnsynced
  \/ m.dir = "NONE"
  \/ (m.dir # "NONE" /\ m.dir # "PUSH")
  \/ m.at = NULL

\* orderBy last_synced_at asc, created_at asc: PostgreSQL sorts nulls after every value
\* in ascending order when the query names no null order, and this one names none.
SortsBefore(i, j) ==
  LET ai == emaps[i].at
      aj == emaps[j].at
  IN  IF ai = aj THEN i < j
      ELSE IF ai = NULL THEN FALSE
      ELSE IF aj = NULL THEN TRUE
      ELSE ai < aj

\* findMany: the eligible rows in that order, at most `limit` of them.
Select(onlyUnsynced, limit) ==
  LET E == {i \in Ids : Eligible(emaps[i], onlyUnsynced)}
      Rank(i) == Cardinality({j \in E : SortsBefore(j, i)})
  IN  [k \in 1..Min(limit, Cardinality(E)) |-> CHOOSE i \in E : Rank(i) = k - 1]

\* p-limit: a queued task starts only while fewer than `concurrency` are running.
Unlimited(n) == TRUE

ActiveCount == Cardinality({i \in Ids : item[i].pc \in ActivePcs})

SlotFree(n) == ActiveCount < n

Sleepers == {i \in Ids : item[i].pc \in {"sleeping", "backoff"}}

\* The data of prisma.externalProductMap.update in processSingle.
PushedKeepsSource(m, t) == [m EXCEPT !.dir = "PUSH", !.at = t]

Pushed(m, t) == [m EXCEPT !.dir = "PUSH", !.at = t, !.sot = "MASTER"]

\* A dry run that goes on to the mapping update.
DryRunUpdates(r) ==
  IF cfg.dryRun
    THEN [r EXCEPT !.pc = "update", !.released = now, !.wake = NULL]
    ELSE [r EXCEPT !.pc = "calling", !.released = now, !.wake = NULL, !.attempts = 1]

ProceedCalls(r) == [r EXCEPT !.pc = "calling", !.released = now, !.wake = NULL, !.attempts = 1]

\* After `await rateLimiter.wait()`: a dry run goes to the report line, a real run
\* makes the first call of runWithRetry.
Proceed(r) ==
  IF cfg.dryRun
    THEN [r EXCEPT !.pc = "append", !.released = now, !.wake = NULL]
    ELSE [r EXCEPT !.pc = "calling", !.released = now, !.wake = NULL, !.attempts = 1]

Outcome(i) == IF item[i].pc \in SettledPcs THEN item[i].pc ELSE "none"

\* main(): findMany, then one p-limit task per target and a new RateLimiter.
StartRun ==
  /\ run < planned
  /\ main # "running"
  /\ queue = <<>> /\ ActiveCount = 0
  /\ run' = run + 1
  /\ prev' = [i \in Ids |-> Outcome(i)]
  /\ before' = emaps
  /\ targets' = Select(cfg.onlyUnsynced, cfg.limit)
  /\ queue' = targets'
  /\ main' = IF Len(targets') = 0 THEN "done" ELSE "running"
  /\ item' = [i \in Ids |-> IF i \in {targets'[k] : k \in DOMAIN targets'}
                              THEN [NoItem EXCEPT !.pc = "queued"] ELSE NoItem]
  /\ nextAvailable' = now
  /\ report' = [i \in Ids |-> <<>>]
  /\ success' = 0 /\ failure' = 0
  /\ UNCHANGED <<txVars, impVars, cfg, emaps, now, ticks, faults, planned>>

\* A task leaves p-limit's queue and processSingle runs up to its first suspension:
\* the master_code test and the synchronous part of rateLimiter.wait().
StartItem(i) ==
  /\ queue # <<>> /\ i = Head(queue)
  /\ SlotFree(cfg.concurrency)
  /\ queue' = Tail(queue)
  /\ IF emaps[i].masterCode = ""
       THEN /\ item' = [item EXCEPT ![i].pc = "catch", ![i].err = "master_code"]
            /\ UNCHANGED nextAvailable
       ELSE /\ nextAvailable' = Reserve(nextAvailable, now)
            /\ item' = [item EXCEPT ![i] =
                 IF WaitUntil(nextAvailable, now) - now > 0
                   THEN [@ EXCEPT !.pc = "sleeping", !.slot = WaitUntil(nextAvailable, now),
                                  !.wake = WaitUntil(nextAvailable, now)]
                   ELSE Proceed([@ EXCEPT !.slot = WaitUntil(nextAvailable, now)])]
  /\ UNCHANGED <<txVars, impVars, cfg, emaps, before, run, main, targets, now, ticks, report, success,
                 failure, faults, planned, prev>>

\* sleep(delay) in RateLimiter.wait ends.
LimiterWake(i) ==
  /\ item[i].pc = "sleeping" /\ item[i].wake <= now
  /\ item' = [item EXCEPT ![i] = Proceed(@)]
  /\ UNCHANGED <<txVars, impVars, cfg, emaps, before, run, main, targets, queue, nextAvailable, now, ticks,
                 report, success, failure, faults, planned, prev>>

\* imwebClient.updateProductCode resolved: runWithRetry returns.
CallOk(i) ==
  /\ item[i].pc = "calling"
  /\ item' = [item EXCEPT ![i].pc = "update"]
  /\ UNCHANGED <<txVars, impVars, cfg, emaps, before, run, main, targets, queue, nextAvailable, now, ticks,
                 report, success, failure, faults, planned, prev>>

\* imwebClient.updateProductCode rejected: runWithRetry's catch.
CallFail(i) ==
  /\ item[i].pc = "calling"
  /\ item' = [item EXCEPT ![i] =
       IF RetryExhausted(Len(@.delays), cfg.retries)
         THEN [@ EXCEPT !.pc = "catch", !.err = "call"]
         ELSE [@ EXCEPT !.pc = "backoff",
                        !.wake = now + BackoffDelay(cfg.backoffMs, Len(item[i].delays)),
                        !.delays = Append(@, BackoffDelay(cfg.backoffMs, Len(@)))]]
  /\ UNCHANGED <<txVars, impVars, cfg, emaps, before, run, main, targets, queue, nextAvailable, now, ticks,
                 report, success, failure, faults, planned, prev>>

\* sleep(delay) in runWithRetry ends: the loop calls fn() again.
BackoffWake(i) ==
  /\ item[i].pc = "backoff" /\ item[i].wake <= now
  /\ item' = [item EXCEPT ![i].pc = "calling", ![i].wake = NULL,
                          ![i].attempts = @ + 1]
  /\ UNCHANGED <<txVars, impVars, cfg, emaps, before, run, main, targets, queue, nextAvailable, now, ticks,
                 report, success, failure, faults, planned, prev>>

\* prisma.externalProductMap.update succeeded.
UpdateOk(i) ==
  /\ item[i].pc = "update"
  /\ emaps' = [emaps EXCEPT ![i] = Pushed(@, now)]
  /\ item' = [item EXCEPT ![i].pc = "append"]
  /\ UNCHANGED <<txVars, impVars, cfg, before, run, main, targets, queue, nextAvailable, now, ticks,
                 report, success, failure, faults, planned, prev>>

\* prisma.externalProductMap.update threw: nothing was written.
UpdateFail(i) ==
  /\ faults < MaxFaults
  /\ faults' = faults + 1
  /\ item[i].pc = "update"
  /\ item' = [item EXCEPT ![i].pc = "catch", ![i].err = "update"]
  /\ UNCHANGED <<txVars, impVars, cfg, emaps, before, run, main, targets, queue, nextAvailable, now, ticks,
                 report, success, failure, planned, prev>>

\* appendReportLine(reportPath, lineBase) succeeded: processSingle returns lineBase and
\* the task counts a success.
AppendOk(i) ==
  /\ item[i].pc = "append"
  /\ report' = [report EXCEPT ![i] = Append(@, "success")]
  /\ item' = [item EXCEPT ![i].pc = "success"]
  /\ success' = success + 1
  /\ UNCHANGED <<txVars, impVars, cfg, emaps, before, run, main, targets, queue, nextAvailable, now, ticks,
                 failure, faults, planned, prev>>

\* appendReportLine(reportPath, lineBase) threw (fs.appendFile rejected).
AppendFail(i) ==
  /\ faults < MaxFaults
  /\ faults' = faults + 1
  /\ item[i].pc = "append"
  /\ item' = [item EXCEPT ![i].pc = "catch", ![i].err = "append"]
  /\ UNCHANGED <<txVars, impVars, cfg, emaps, before, run, main, targets, queue, nextAvailable, now, ticks,
                 report, success, failure, planned, prev>>

\* processSingle's catch: the error line is written, errorLine is returned and the task
\* counts a failure.
CatchAppendOk(i) ==
  /\ item[i].pc = "catch"
  /\ report' = [report EXCEPT ![i] = Append(@, "error")]
  /\ item' = [item EXCEPT ![i].pc = "error"]
  /\ failure' = failure + 1
  /\ UNCHANGED <<txVars, impVars, cfg, emaps, before, run, main, targets, queue, nextAvailable, now, ticks,
                 success, faults, planned, prev>>

\* processSingle's catch: writing the error line threw too, so processSingle rejects.
CatchAppendFail(i) ==
  /\ faults < MaxFaults
  /\ faults' = faults + 1
  /\ item[i].pc = "catch"
  /\ item' = [item EXCEPT ![i].pc = "rejected"]
  /\ UNCHANGED <<txVars, impVars, cfg, emaps, before, run, main, targets, queue, nextAvailable, now, ticks,
                 report, success, failure, planned, prev>>

\* await Promise.all(tasks) resolved: every task fulfilled.
Complete ==
  /\ main = "running"
  /\ \A k \in DOMAIN targets : item[targets[k]].pc \in {"success", "error"}
  /\ main' = "done"
  /\ UNCHANGED <<txVars, impVars, cfg, emaps, before, run, targets, queue, item, nextAvailable, now, ticks,
                 report, success, failure, faults, planned, prev>>

\* await Promise.all(tasks) rejected: main's catch; the other tasks keep running.
Abort ==
  /\ main = "running"
  /\ \E k \in DOMAIN targets : item[targets[k]].pc = "rejected"
  /\ main' = "failed"
  /\ UNCHANGED <<txVars, impVars, cfg, emaps, before, run, targets, queue, item, nextAvailable, now, ticks,
                 report, success, failure, faults, planned, prev>>

\* Time passes. A task that p-limit can start has started before any time passes.
\* sleep(ms) resolves no earlier than ms after the call and, as a timer callback, it
\* may run later than that. Calls, updates and file writes take any time. The clock
\* moves by one millisecond or on to the next pending wake-up.
FutureWakes == {item[i].wake : i \in {j \in Sleepers : item[j].wake > now}}

Tick ==
  /\ ~(queue # <<>> /\ SlotFree(cfg.concurrency))
  /\ \/ /\ ticks < MaxTicks
        /\ now' = now + 1
        /\ ticks' = ticks + 1
     \/ /\ FutureWakes # {}
        /\ now' = CHOOSE w \in FutureWakes : \A v \in FutureWakes : w <= v
        /\ UNCHANGED ticks
  /\ UNCHANGED <<txVars, impVars, cfg, emaps, before, run, main, targets, queue, item, nextAvailable,
                 report, success, failure, faults, planned, prev>>

\* ExternalProductMap rows as the import, the admin API and earlier pushes leave them.
MapStates ==
  { [dir |-> "NONE", at |-> NULL, sot |-> "IMWEB"],
    [dir |-> "PULL", at |-> 0, sot |-> "IMWEB"],
    [dir |-> "PUSH", at |-> 1, sot |-> "MASTER"] }

MasterCodeText(i) == IF i = 1 THEN "CATE9-00001" ELSE IF i = 2 THEN "CATE9-00002"
                     ELSE IF i = 3 THEN "CATE44-00001" ELSE "CATE44-00002"

\* A mapping as importRow and POST create it: never synced, IMWEB the source of truth.
NewMap(i) == [dir |-> "NONE", at |-> NULL, sot |-> "IMWEB", masterCode |-> MasterCodeText(i)]

\* A mapping an earlier run pushed.
PushedMap(i) == [dir |-> "PUSH", at |-> 1, sot |-> "MASTER", masterCode |-> MasterCodeText(i)]

PushIdle ==
  /\ before = emaps
  /\ run = 0
  /\ main = "none"
  /\ targets = <<>>
  /\ queue = <<>>
  /\ item = [i \in Ids |-> NoItem]
  /\ nextAvailable = 2
  /\ now = 2
  /\ ticks = 0
  /\ report = [i \in Ids |-> <<>>]
  /\ success = 0 /\ failure = 0
  /\ faults = 0
  /\ prev = [i \in Ids |-> "none"]

TxIdle ==
  /\ counter = [c \in Cats |-> NULL]
  /\ prior = counter
  /\ seqLock = [c \in Cats |-> 0]
  /\ products = {}
  /\ maps = {}
  /\ tx = [t \in Txns |-> IdleTx]

\* The options main() runs with: a set of values for each.
Options(dry, conc, retr, back, lim) ==
  [dryRun : dry, concurrency : conc, retries : retr, backoffMs : back,
   rateLimit : {DefaultRateLimit}, limit : lim, onlyUnsynced : {TRUE}]

\* ------------------------------------------------------------------------
\* Text: a string is the sequence of its characters
\* ------------------------------------------------------------------------
\* String.prototype.toUpperCase on the letters the model uses.
UpperChar(c) == IF c = "a" THEN "A" ELSE IF c = "b" THEN "B" ELSE IF c = "y" THEN "Y"
                ELSE IF c = "n" THEN "N" ELSE c

ToUpperCase(s) == [k \in 1..Len(s) |-> UpperChar(s[k])]

\* \s of WHITESPACE_REGEX and of String.prototype.trim.
IsSpace(c) == c \in {" ", "\t"}

RECURSIVE TrimStart(_)
TrimStart(s) == IF s # <<>> /\ IsSpace(Head(s)) THEN TrimStart(Tail(s)) ELSE s

RECURSIVE TrimEnd(_)
TrimEnd(s) == IF s # <<>> /\ IsSpace(s[Len(s)]) THEN TrimEnd(SubSeq(s, 1, Len(s) - 1)) ELSE s

Trim(s) == TrimEnd(TrimStart(s))

\* value.replace(/\s+/g, ' '): every run of whitespace becomes one space.
RECURSIVE CollapseSpaces(_)
CollapseSpaces(s) ==
  IF s = <<>> THEN <<>>
  ELSE IF IsSpace(Head(s))
         THEN <<" ">> \o CollapseSpaces(TrimStart(s))
         ELSE <<Head(s)>> \o CollapseSpaces(Tail(s))

KeepsInnerSpaces(value) == Trim(value)

normalizeWhitespace(value) == Trim(CollapseSpaces(value))

canonicalizeOptionValue(value) == ToUpperCase(normalizeWhitespace(value))

\* String.prototype.split(','): the pieces between the commas, empty ones included.
RECURSIVE SplitComma(_)
SplitComma(s) ==
  LET commas == {k \in 1..Len(s) : s[k] = ","}
  IN  IF commas = {} THEN <<s>>
      ELSE LET k == CHOOSE c \in commas : \A d \in commas : c <= d
           IN  <<SubSeq(s, 1, k - 1)>> \o SplitComma(SubSeq(s, k + 1, Len(s)))

\* Array.prototype.filter((part) => part.length > 0)
RECURSIVE NonEmptyParts(_)
NonEmptyParts(parts) ==
  IF parts = <<>> THEN <<>>
  ELSE IF Len(Head(parts)) > 0 THEN <<Head(parts)>> \o NonEmptyParts(Tail(parts))
       ELSE NonEmptyParts(Tail(parts))

KeepsDuplicates(values) == values

RECURSIVE dedupePreserveOrder(_)
dedupePreserveOrder(values) ==
  IF values = <<>> THEN <<>>
  ELSE LET init == dedupePreserveOrder(SubSeq(values, 1, Len(values) - 1))
           last == values[Len(values)]
       IN  IF \E k \in 1..Len(init) : init[k] = last THEN init ELSE Append(init, last)

\* A cell of the sheet: null, a finite number, a string, or a value of another type.
NullCell == [kind |-> "null"]
NumCell(n) == [kind |-> "number", num |-> n]
StrCell(s) == [kind |-> "string", str |-> s]
BoolCell == [kind |-> "boolean"]

\* parseCategoryIds: a typed failure or the list of ids.
CategoryParseError == [ok |-> FALSE, error |-> "CategoryParseError"]

parseCategoryIds(raw) ==
  IF raw.kind # "string" THEN CategoryParseError
  ELSE LET parts == NonEmptyParts([k \in 1..Len(SplitComma(raw.str)) |->
                                     normalizeWhitespace(SplitComma(raw.str)[k])])
           deduped == dedupePreserveOrder(parts)
       IN  IF Len(deduped) = 0 THEN CategoryParseError
           ELSE [ok |-> TRUE, ids |-> deduped]

\* ------------------------------------------------------------------------
\* The import script's row validation (the import script: parseRow)
\* ------------------------------------------------------------------------
Digits == {"0", "1", "2", "3", "4", "5", "6", "7", "8", "9"}

DigitVal(c) == CHOOSE n \in 0..9 : <<"0", "1", "2", "3", "4", "5", "6", "7", "8", "9">>[n + 1] = c

AllDigits(s) == \A k \in 1..Len(s) : s[k] \in Digits

RECURSIVE ParseDigits(_)
ParseDigits(s) == IF s = <<>> THEN 0 ELSE 10 * ParseDigits(SubSeq(s, 1, Len(s) - 1)) + DigitVal(s[Len(s)])

\* String(value) of an integer.
RECURSIVE NatToString(_)
NatToString(n) ==
  IF n < 10 THEN << <<"0", "1", "2", "3", "4", "5", "6", "7", "8", "9">>[n + 1] >>
  ELSE NatToString(n \div 10) \o NatToString(n % 10)

NumberToString(n) == IF n < 0 THEN <<"-">> \o NatToString(0 - n) ELSE NatToString(n)

\* An optional string: null or a string.
NoString == [some |-> FALSE]
SomeString(s) == [some |-> TRUE, str |-> s]

\* coerceString: numbers are written out, strings trimmed, null is ''; any other value
\* throws a plain Error.
coerceString(value) ==
  IF value.kind = "number" THEN [ok |-> TRUE, str |-> NumberToString(value.num)]
  ELSE IF value.kind = "string" THEN [ok |-> TRUE, str |-> Trim(value.str)]
  ELSE IF value.kind = "null" THEN [ok |-> TRUE, str |-> <<>>]
  ELSE [ok |-> FALSE]

coerceOptionalString(value) ==
  IF value.kind = "null" THEN NoString
  ELSE IF value.kind = "number" THEN SomeString(NumberToString(value.num))
  ELSE IF value.kind = "string"
         THEN IF Len(Trim(value.str)) > 0 THEN SomeString(Trim(value.str)) ELSE NoString
  ELSE NoString

normalizeYn(value) == IF value.kind # "string" THEN <<>> ELSE ToUpperCase(Trim(value.str))

parseYnToBoolean(value, fallback) ==
  IF normalizeYn(value) = <<"Y">> THEN TRUE
  ELSE IF normalizeYn(value) = <<"N">> THEN FALSE
  ELSE fallback

\* parseNonNegativeInt: NULL for null. (The cells of the model hold whole numbers, on
\* which Math.trunc changes nothing.)
parseNonNegativeInt(value) ==
  IF value.kind = "number" THEN (IF value.num >= 0 THEN value.num ELSE NULL)
  ELSE IF value.kind = "string"
         THEN IF Trim(value.str) = <<>> THEN NULL
              ELSE IF ~AllDigits(Trim(value.str)) THEN NULL
              ELSE ParseDigits(Trim(value.str))
  ELSE NULL

\* value.replace(/,/g, '')
RECURSIVE StripCommas(_)
StripCommas(s) ==
  IF s = <<>> THEN <<>>
  ELSE IF Head(s) = "," THEN StripCommas(Tail(s)) ELSE <<Head(s)>> \o StripCommas(Tail(s))

\* A JavaScript number as the model keeps it: num is Math.trunc of it, whole tells
\* whether it has no fraction, neg whether it is below zero.
Whole(n) == [finite |-> TRUE, num |-> n, whole |-> TRUE, neg |-> n < 0]

\* Number(text) of an unsigned decimal literal: digits, with an optional point.
UnsignedNumber(t) ==
  IF t # <<>> /\ AllDigits(t) THEN Whole(ParseDigits(t))
  ELSE IF \E k \in 1..Len(t) :
            /\ t[k] = "." /\ Len(t) > 1
            /\ AllDigits(SubSeq(t, 1, k - 1)) /\ AllDigits(SubSeq(t, k + 1, Len(t)))
         THEN LET k == CHOOSE d \in 1..Len(t) : t[d] = "."
              IN  [finite |-> TRUE, num |-> ParseDigits(SubSeq(t, 1, k - 1)),
                   whole |-> ParseDigits(SubSeq(t, k + 1, Len(t))) = 0, neg |-> FALSE]
  ELSE [finite |-> FALSE]

\* Number(text) for the texts of the model: '' is 0, a decimal literal with an optional
\* minus sign is its value, anything else is NaN.
ToNumber(text) ==
  LET t == Trim(text)
  IN  IF t = <<>> THEN Whole(0)
      ELSE IF Head(t) = "-"
             THEN LET u == UnsignedNumber(Tail(t))
                  IN  IF u.finite
                        THEN [finite |-> TRUE, num |-> 0 - u.num, whole |-> u.whole,
                              neg |-> u.num > 0 \/ ~u.whole]
                        ELSE [finite |-> FALSE]
      ELSE UnsignedNumber(t)

\* parsePrice: Math.trunc of the number, refused when not finite or when the truncated
\* value is below zero.
parsePrice(value) ==
  LET numeric == IF value.kind = "number" THEN Whole(value.num)
                 ELSE IF value.kind = "string" THEN ToNumber(Trim(StripCommas(value.str)))
                 ELSE [finite |-> FALSE]
  IN  IF ~numeric.finite THEN [ok |-> FALSE]
      ELSE IF numeric.num < 0 THEN [ok |-> FALSE]
      ELSE [ok |-> TRUE, price |-> numeric.num]

\* buildOptionValues: split on commas, normalize, drop the empty parts, keep the first
\* part of each canonical value.
RECURSIVE DedupeByCanonical(_)
DedupeByCanonical(parts) ==
  IF parts = <<>> THEN <<>>
  ELSE LET init == DedupeByCanonical(SubSeq(parts, 1, Len(parts) - 1))
           last == parts[Len(parts)]
       IN  IF \E k \in 1..Len(init) : init[k].canonicalValue = canonicalizeOptionValue(last)
             THEN init
             ELSE Append(init, [displayValue |-> last,
                                canonicalValue |-> canonicalizeOptionValue(last)])

buildOptionValues(rawValues) ==
  DedupeByCanonical(NonEmptyParts([k \in 1..Len(SplitComma(rawValues)) |->
                                     normalizeWhitespace(SplitComma(rawValues)[k])]))

\* What parseRow throws: an ImportRowError with a code, or (typed = FALSE) a plain Error.
RowError(code, typed, warnings) ==
  [ok |-> FALSE, code |-> code, typed |-> typed, warnings |-> warnings]

FlagWarning == "inventory flag is not Y/N"
StockWarning == "no usable stock quantity"
OptionWarning == "option name missing"

\* The option block of parseRow (lines 244-262), after the inventory checks passed.
OptionNameRequired(row, base, warnings) ==
  IF ~parseYnToBoolean(row.optionUsed, FALSE)
    THEN [base EXCEPT !.warnings = warnings]
    ELSE RowError("OPTION_VALUES", TRUE, warnings)

ParseOptions(row, base, warnings) ==
  IF ~parseYnToBoolean(row.optionUsed, FALSE)
    THEN [base EXCEPT !.warnings = warnings]
  ELSE IF ~coerceOptionalString(row.optionName).some
    THEN [base EXCEPT !.warnings = Append(warnings, OptionWarning)]
  ELSE IF ~coerceOptionalString(row.optionValues).some
    THEN RowError("OPTION_VALUES", TRUE, warnings)
  ELSE IF Len(buildOptionValues(coerceOptionalString(row.optionValues).str)) = 0
    THEN RowError("OPTION_VALUES", TRUE, warnings)
  ELSE [base EXCEPT !.warnings = warnings,
                    !.optionName = coerceOptionalString(row.optionName),
                    !.optionValues = buildOptionValues(coerceOptionalString(row.optionValues).str)]

InventoryMismatch(inventoryTrack, currentQty, optionQty) ==
  ~inventoryTrack /\ (currentQty # NULL \/ optionQty # NULL)

\* The inventory block of parseRow (lines 215-237) and what follows it.
ParseInventory(row, base) ==
  LET w1 == IF normalizeYn(row.inventoryFlag) # <<"Y">> /\ normalizeYn(row.inventoryFlag) # <<"N">>
              THEN <<FlagWarning>> ELSE <<>>
      inventoryTrack == parseYnToBoolean(row.inventoryFlag, FALSE)
      currentQty == parseNonNegativeInt(row.currentQty)
      optionQty == parseNonNegativeInt(row.optionQty)
      stockQty == IF ~inventoryTrack THEN NULL
                  ELSE IF currentQty # NULL THEN currentQty
                  ELSE optionQty
      w2 == IF inventoryTrack /\ currentQty = NULL /\ optionQty = NULL
              THEN Append(w1, StockWarning) ELSE w1
  IN  IF InventoryMismatch(inventoryTrack, currentQty, optionQty)
        THEN RowError("INVENTORY_MISMATCH", TRUE, w1)
        ELSE ParseOptions(row, [base EXCEPT !.inventoryTrack = inventoryTrack,
                                            !.stockQty = stockQty], w2)

\* parseRow: the first failing check decides the error; the warnings pushed before it
\* stay in the report.
parseRow(row) ==
  IF ~coerceString(row.productId).ok THEN RowError("none", FALSE, <<>>)
  ELSE IF coerceString(row.productId).str = <<>> THEN RowError("PRODUCT_ID", TRUE, <<>>)
  ELSE IF ~coerceString(row.name).ok THEN RowError("none", FALSE, <<>>)
  ELSE IF coerceString(row.name).str = <<>> THEN RowError("PRODUCT_NAME", TRUE, <<>>)
  ELSE IF ~coerceString(row.categoryIds).ok THEN RowError("CATEGORY", TRUE, <<>>)
  ELSE IF ~parseCategoryIds(StrCell(coerceString(row.categoryIds).str)).ok
    THEN RowError("CATEGORY", TRUE, <<>>)
  ELSE IF ~parsePrice(row.price).ok THEN RowError("PRICE", TRUE, <<>>)
  ELSE ParseInventory(row,
         [ok |-> TRUE,
          productId |-> coerceString(row.productId).str,
          categories |-> parseCategoryIds(StrCell(coerceString(row.categoryIds).str)).ids,
          issuedCategoryId |-> parseCategoryIds(StrCell(coerceString(row.categoryIds).str)).ids[1],
          priceSale |-> parsePrice(row.price).price,
          inventoryTrack |-> FALSE,
          stockQty |-> NULL,
          optionName |-> NoString,
          optionValues |-> <<>>,
          thumbnailUrl |-> coerceOptionalString(row.thumbnail),
          warnings |-> <<>>])

\* ------------------------------------------------------------------------
\* The import run: main() and importRow of the import script
\* ------------------------------------------------------------------------
MaxRows == 2

IdleRtx == [pc |-> "idle"]

\* Row numbers that do not count the header row.
RowNumberNoHeader == index + 1

RowNumber == index + 2

ReportStartsSuccess ==
  [totalRows |-> 0, processed |-> 0, skippedExisting |-> 0, warnings |-> <<>>,
   errors |-> <<>>, status |-> "success", written |-> FALSE]

\* report: ImportReport as main() creates it.
EmptyReport == [totalRows |-> 0, processed |-> 0, skippedExisting |-> 0, warnings |-> <<>>,
                errors |-> <<>>, status |-> "failed", written |-> FALSE]

ImportIdle ==
  /\ rows = <<>> /\ readable = TRUE /\ allowExisting = FALSE
  /\ index = 0
  /\ imain = "none"
  /\ ireport = EmptyReport
  /\ exitCode = 0
  /\ rtx = IdleRtx
  /\ dbBefore = <<counter, products, maps>>
  /\ rowlog = <<>>

NotCalled == [called |-> FALSE]

CatIdle == catRaw = NullCell /\ catResult = NotCalled

CanonIdle == canonIn = <<>> /\ canonOnce = NotCalled /\ canonTwice = NotCalled

\* this.cachedToken undefined.
NoToken == [value |-> 0]

NoRequest == [state |-> "none"]

NoCall == [pc |-> "idle"]

ClientIdle ==
  /\ cachedToken = NoToken
  /\ inflightToken = 0
  /\ tokenReqs = <<>>
  /\ call = <<>>
  /\ cnow = 0

\* No IMWEB_API_* variable set, createImwebClient not called.
EnvIdle ==
  /\ env = [clientId |-> NoString, clientSecret |-> NoString, shopId |-> NoString,
            baseUrl |-> NoString, timeoutMs |-> NoString, nodeEnvTest |-> FALSE]
  /\ created = NotCalled /\ warnedMissingCredentials = FALSE

PriceIdle == priceCell = NullCell /\ priceResult = NotCalled

AdminIdle == adminLog = <<>>

AuxIdle == CanonIdle /\ ClientIdle /\ EnvIdle /\ PriceIdle /\ AdminIdle

LibIdle == CatIdle /\ AuxIdle

\* report.warnings.push for each warning parseRow produced for the row.
WithWarnings(rep, rowNumber, ws) ==
  [rep EXCEPT !.warnings = @ \o [k \in 1..Len(ws) |-> [rowNumber |-> rowNumber, message |-> ws[k]]]]

\* The loop's catch: ensureImportRowError keeps an ImportRowError's code; any other
\* error becomes an ImportRowError without a code ("none").
ErrorNotRecorded(rep, rowNumber, code) == rep

WithError(rep, rowNumber, code) ==
  [rep EXCEPT !.errors = Append(@, [rowNumber |-> rowNumber, code |-> code])]

\* How a row ended: its outcome, what the transaction had read (existing,
\* masterCodeCollision, the issued sequence), whether a query failed, and the
\* database before and after the row.
Handled(result, code, existing, seq, collision, fault, after) ==
  [rowNumber |-> RowNumber, result |-> result, code |-> code, existing |-> existing,
   seq |-> seq, masterCodeCollision |-> collision, fault |-> fault,
   before |-> dbBefore, after |-> after]

\* CodeIssuer increments inside the caller's transaction: a rollback undoes it.
KeepsIncrement(cat, seq) == [counter EXCEPT ![cat] = seq]

RolledBackCounter(cat, seq) == counter

\* main(): loadImwebExcelRows; when it throws, main's catch and finally.
ImportStart ==
  /\ imain = "none"
  /\ IF readable
       THEN /\ imain' = "loop"
            /\ ireport' = [ireport EXCEPT !.totalRows = Len(rows)]
            /\ UNCHANGED exitCode
       ELSE /\ imain' = "ended"
            /\ ireport' = [ireport EXCEPT !.written = TRUE]
            /\ exitCode' = 1
  /\ UNCHANGED <<txVars, pushVars, libVars, rows, readable, allowExisting, index, rtx,
                 dbBefore, rowlog>>

\* The loop body up to importRow's first query: parseRow, and the catch when it throws.
RowParse ==
  /\ imain = "loop" /\ rtx.pc = "idle" /\ index < Len(rows)
  /\ LET r == parseRow(rows[index + 1])
     IN  IF r.ok
           THEN /\ rtx' = [pc |-> "find", parsed |-> r, seq |-> 0, existing |-> FALSE,
                           masterCodeCollision |-> FALSE]
                /\ ireport' = WithWarnings(ireport, RowNumber, r.warnings)
                /\ dbBefore' = <<counter, products, maps>>
                /\ UNCHANGED <<index, rowlog>>
           ELSE /\ ireport' = WithError(WithWarnings(ireport, RowNumber, r.warnings),
                                        RowNumber, IF r.typed THEN r.code ELSE "none")
                /\ index' = index + 1
                /\ dbBefore' = <<counter, products, maps>>
                /\ rowlog' = Append(rowlog,
                     [Handled("error", IF r.typed THEN r.code ELSE "none", FALSE, 0, FALSE,
                              FALSE, <<counter, products, maps>>)
                        EXCEPT !.before = <<counter, products, maps>>])
                /\ UNCHANGED rtx
  /\ UNCHANGED <<txVars, pushVars, libVars, rows, readable, allowExisting, imain, exitCode>>

\* The transaction threw: it is rolled back and the loop's catch records the row.
RowFail(code, fault) ==
  /\ ireport' = WithError(ireport, RowNumber, code)
  /\ index' = index + 1
  /\ counter' = IF rtx.seq # 0 THEN RolledBackCounter(rtx.parsed.issuedCategoryId, rtx.seq)
                ELSE counter
  /\ rowlog' = Append(rowlog, Handled("error", code, rtx.existing, rtx.seq,
                                      rtx.masterCodeCollision, fault,
                                      <<counter', products, maps>>))
  /\ rtx' = IdleRtx
  /\ UNCHANGED <<prior, seqLock, products, maps, tx>>

\* tx.externalProductMap.findUnique by (IMWEB, external_id): whether a row came back.
LookupMisses(productId) == FALSE

Existing(productId) == \E m \in maps : m.external_id = productId

\* importRow: findUnique of the (IMWEB, productId) mapping.
RowFindExisting ==
  /\ rtx.pc = "find"
  /\ rtx' = [rtx EXCEPT !.pc = "found", !.existing = Existing(rtx.parsed.productId)]
  /\ UNCHANGED <<txVars, pushVars, libVars, rows, readable, allowExisting, index, imain,
                 ireport, exitCode, dbBefore, rowlog>>

\* importRow: `if (existing)`: the EXISTS error, or 'skipped' and the loop's count.
RowExisting ==
  /\ rtx.pc = "found" /\ rtx.existing
  /\ IF ~allowExisting
       THEN /\ RowFail("EXISTS", FALSE)
            /\ UNCHANGED <<pushVars>>
       ELSE /\ ireport' = [ireport EXCEPT !.skippedExisting = @ + 1]
            /\ index' = index + 1
            /\ rowlog' = Append(rowlog, Handled("skipped", "none", TRUE, 0, FALSE, FALSE,
                                                <<counter, products, maps>>))
            /\ rtx' = IdleRtx
            /\ UNCHANGED <<txVars, pushVars>>
  /\ UNCHANGED <<libVars, rows, readable, allowExisting, imain, exitCode, dbBefore>>

\* codeIssuer.issueMasterCode(tx, parsed.issuedCategoryId)
RowIssue ==
  /\ rtx.pc = "found" /\ ~rtx.existing
  /\ rtx' = [rtx EXCEPT !.pc = "check", !.seq = NextSeq(rtx.parsed.issuedCategoryId)]
  /\ UNCHANGED <<txVars, pushVars, libVars, rows, readable, allowExisting, index, imain,
                 ireport, exitCode, dbBefore, rowlog>>

\* importRow: findUnique of the issued master_code among the products.
RowCheckCollision ==
  /\ rtx.pc = "check"
  /\ rtx' = [rtx EXCEPT !.pc = "checked",
                        !.masterCodeCollision =
                           MasterCodeCollision(FormatMasterCode(rtx.parsed.issuedCategoryId,
                                                                rtx.seq))]
  /\ UNCHANGED <<txVars, pushVars, libVars, rows, readable, allowExisting, index, imain,
                 ireport, exitCode, dbBefore, rowlog>>

\* importRow: `if (masterCodeCollision)`: the MASTER_CODE_COLLISION error.
RowCollision ==
  /\ rtx.pc = "checked" /\ rtx.masterCodeCollision
  /\ RowFail("MASTER_CODE_COLLISION", FALSE)
  /\ UNCHANGED <<pushVars, libVars, rows, readable, allowExisting, imain, exitCode, dbBefore>>

\* The Product row of tx.product.create, with its option values and thumbnail.
NewProduct(id, parsed, seq) ==
  [id |-> id,
   master_code |-> FormatMasterCode(parsed.issuedCategoryId, seq),
   category_ids |-> parsed.categories,
   price_sale |-> parsed.priceSale,
   inventory_track |-> parsed.inventoryTrack,
   stock_qty |-> parsed.stockQty,
   option_name |-> parsed.optionName,
   optionValues |-> IF Len(parsed.optionValues) > 0 /\ parsed.optionName.some
                      THEN parsed.optionValues ELSE <<>>,
   images |-> parsed.thumbnailUrl]

\* tx.product.create with its nested writes, the callback's return and the commit:
\* a unique constraint refuses a duplicate; otherwise all that the transaction wrote
\* becomes visible together and the loop counts the row.
RowCreate ==
  /\ rtx.pc = "checked" /\ ~rtx.masterCodeCollision
  /\ IF ~MasterCodeFree(FormatMasterCode(rtx.parsed.issuedCategoryId, rtx.seq))
          \/ ~ExternalIdFree(rtx.parsed.productId)
       THEN RowFail("none", FALSE)
       ELSE /\ products' = products \cup {NewProduct(RowNumber, rtx.parsed, rtx.seq)}
            /\ maps' = maps \cup {[external_id |-> rtx.parsed.productId,
                                   product_id |-> RowNumber]}
            /\ counter' = [counter EXCEPT ![rtx.parsed.issuedCategoryId] = rtx.seq]
            /\ ireport' = [ireport EXCEPT !.processed = @ + 1]
            /\ index' = index + 1
            /\ rowlog' = Append(rowlog, Handled("created", "none", FALSE, rtx.seq, FALSE,
                                                FALSE, <<counter', products', maps'>>))
            /\ rtx' = IdleRtx
            /\ UNCHANGED <<prior, seqLock, tx>>
  /\ UNCHANGED <<pushVars, libVars, rows, readable, allowExisting, imain, exitCode, dbBefore>>

\* A query or the commit failed (connection lost, the 60000 ms timeout): a plain error.
RowDbError ==
  /\ rtx.pc \in {"find", "found", "check", "checked"}
  /\ faults < MaxFaults
  /\ faults' = faults + 1
  /\ RowFail("none", TRUE)
  /\ UNCHANGED <<libVars, rows, readable, allowExisting, imain, exitCode, dbBefore,
                 cfg, emaps, before, run, main, targets, queue, item, nextAvailable, now,
                 ticks, report, success, failure, planned, prev>>

\* After the loop: the status, the exit code, and the report written in finally.
ImportFinish ==
  /\ imain = "loop" /\ rtx.pc = "idle" /\ index = Len(rows)
  /\ imain' = "ended"
  /\ IF Len(ireport.errors) > 0
       THEN /\ ireport' = [ireport EXCEPT !.status = "partial", !.written = TRUE]
            /\ exitCode' = 1
       ELSE /\ ireport' = [ireport EXCEPT !.status = "success", !.written = TRUE]
            /\ UNCHANGED exitCode
  /\ UNCHANGED <<txVars, pushVars, libVars, rows, readable, allowExisting, index, rtx,
                 dbBefore, rowlog>>

\* writeReport throws in finally (the report directory or file cannot be written):
\* main() rejects, nothing handles the rejection and the process ends with exit code 1.
ReportWriteFail ==
  /\ \/ imain = "none" /\ ~readable
     \/ imain = "loop" /\ rtx.pc = "idle" /\ index = Len(rows)
  /\ faults < MaxFaults
  /\ faults' = faults + 1
  /\ imain' = "crashed"
  /\ ireport' = [ireport EXCEPT !.status = IF imain = "none" THEN "failed"
                                          ELSE IF Len(ireport.errors) > 0 THEN "partial"
                                          ELSE "success"]
  /\ exitCode' = 1
  /\ UNCHANGED <<txVars, libVars, rows, readable, allowExisting, index, rtx, dbBefore, rowlog,
                 cfg, emaps, before, run, main, targets, queue, item, nextAvailable, now,
                 ticks, report, success, failure, planned, prev>>

NextImport ==
  \/ ImportStart
  \/ RowParse
  \/ RowFindExisting
  \/ RowExisting
  \/ RowIssue
  \/ RowCheckCollision
  \/ RowCollision
  \/ RowCreate
  \/ RowDbError
  \/ ImportFinish
  \/ ReportWriteFail

\* The database and the push batch as the other specifications leave them at rest.
Rest ==
  /\ tx = [t \in Txns |-> IdleTx]
  /\ seqLock = [c \in Cats |-> 0]
  /\ emaps = [i \in Ids |-> NewMap(i)]
  /\ cfg = [dryRun |-> FALSE, concurrency |-> 3, retries |-> DefaultRetries,
            backoffMs |-> DefaultBackoffMs, rateLimit |-> DefaultRateLimit,
            limit |-> 100, onlyUnsynced |-> TRUE]
  /\ planned = 0
  /\ PushIdle

\* ------------------------------------------------------------------------
\* The sheets and databases the import runs on
\* ------------------------------------------------------------------------
Str1(c) == StrCell(<<c>>)

\* A row that passes every check and has no options, stock or image.
PlainRow(id, cat) ==
  [productId |-> NumCell(id), name |-> Str1("a"), categoryIds |-> cat,
   price |-> NumCell(10), inventoryFlag |-> Str1("N"), currentQty |-> NullCell,
   optionQty |-> NullCell, optionUsed |-> NullCell, optionName |-> NullCell,
   optionValues |-> NullCell, thumbnail |-> NullCell]

\* A row with stock, an option with two spellings of one value, and a thumbnail; its
\* first category is "b".
FullRow ==
  [PlainRow(2, StrCell(<<"b", ",", " ", "a">>)) EXCEPT
     !.inventoryFlag = Str1("y"), !.currentQty = NumCell(5), !.optionUsed = Str1("Y"),
     !.optionName = Str1("a"), !.optionValues = StrCell(<<"a", ",", "A", ",", "b">>),
     !.thumbnail = Str1("a")]

\* 재고사용 = N with a stock quantity.
MismatchRow == [PlainRow(3, Str1("a")) EXCEPT !.currentQty = NumCell(5)]

\* 재고사용 = N with a stock cell that is not a non-negative integer.
NegativeQtyRow == [PlainRow(4, Str1("a")) EXCEPT !.currentQty = StrCell(<<"-", "1">>)]

\* 옵션사용 = Y without an option name; the product id is PlainRow(1, ...)'s.
NoOptionNameRow ==
  [PlainRow(1, Str1("a")) EXCEPT !.optionUsed = Str1("Y"), !.optionValues = Str1("a"),
                                 !.thumbnail = Str1("b")]

RowSamples == {PlainRow(1, Str1("a")), FullRow, MismatchRow, NegativeQtyRow, NoOptionNameRow}

\* One-row sheets: every combination of these cells.
RowGrid ==
  [productId : {NullCell, NumCell(1), BoolCell},
   name : {Str1("a"), Str1(" ")},
   categoryIds : {Str1("a"), Str1(","), BoolCell},
   price : {NumCell(10), NumCell(-1), StrCell(<<"1", ",", "0">>), Str1("x")},
   inventoryFlag : {Str1("y"), Str1("N"), Str1("x"), NullCell},
   currentQty : {NullCell, NumCell(5), Str1("5"), StrCell(<<"-", "1">>)},
   optionQty : {NullCell, NumCell(3)},
   optionUsed : {Str1("Y"), NullCell},
   optionName : {NullCell, Str1("a")},
   optionValues : {NullCell, StrCell(<<"a", ",", "A">>), Str1(",")},
   thumbnail : {NullCell}]

\* The categories the rows issue codes in.
ImportCats == {<<"a">>, <<"b">>}

\* A product an earlier import created.
OldProduct(id, cat, seq) ==
  [id |-> id, master_code |-> FormatMasterCode(cat, seq), category_ids |-> <<cat>>,
   price_sale |-> 10, inventory_track |-> FALSE, stock_qty |-> NULL, option_name |-> NoString,
   optionValues |-> <<>>, images |-> NoString]

\* The database before the run: empty, or (imported) product id 1 of category "a" was
\* imported before; and (corrupt) a product already carries the code category "a"
\* issues next.
ImportDb(imported, corrupt) ==
  /\ counter = [c \in ImportCats |-> IF imported /\ c = <<"a">> THEN 1 ELSE NULL]
  /\ prior = counter
  /\ products = (IF imported THEN {OldProduct(101, <<"a">>, 1)} ELSE {})
                  \cup (IF corrupt THEN {OldProduct(201, <<"a">>, NextSeq(<<"a">>))} ELSE {})
  /\ maps = IF imported THEN {[external_id |-> <<"1">>, product_id |-> 101]} ELSE {}

\* One import run: a one-row sheet of RowGrid on an empty database, or a sheet of up to
\* MaxRows of the RowSamples (or one that cannot be read) on each database, with and
\* without --allow-existing.
InitImport ==
  /\ \/ /\ rows \in {<<r>> : r \in RowGrid}
        /\ readable = TRUE
        /\ allowExisting = FALSE
        /\ ImportDb(FALSE, FALSE)
     \/ /\ rows \in UNION {[1..n -> RowSamples] : n \in 0..MaxRows}
        /\ readable \in BOOLEAN
        /\ readable = FALSE => rows = <<>>
        /\ allowExisting \in BOOLEAN
        /\ \E imported \in BOOLEAN, corrupt \in BOOLEAN : ImportDb(imported, corrupt)
  /\ index = 0
  /\ imain = "none"
  /\ ireport = EmptyReport
  /\ exitCode = 0
  /\ rtx = IdleRtx
  /\ dbBefore = <<counter, products, maps>>
  /\ rowlog = <<>>
  /\ Rest
  /\ LibIdle

SpecImport == InitImport /\ [][NextImport]_vars

\* ------------------------------------------------------------------------
\* Specifications
\* ------------------------------------------------------------------------
\* One run: a dry run over mappings that were never synced, at every concurrency, or
\* a real run over mappings in every sync state, one of them pushed before.
Init ==
  /\ TxIdle
  /\ \/ /\ emaps = [i \in Ids |-> NewMap(i)]
        /\ cfg \in Options({TRUE}, 1..MaxMaps, {DefaultRetries}, {DefaultBackoffMs},
                           {MaxMaps})
     \/ /\ \E st \in [1..2 -> MapStates] :
             emaps = [i \in Ids |->
                        IF i <= 2 THEN [dir |-> st[i].dir, at |-> st[i].at, sot |-> st[i].sot,
                                        masterCode |-> MasterCodeText(i)]
                                  ELSE PushedMap(i)]
        /\ cfg \in Options({FALSE}, 1..2, 0..MaxRetries, {DefaultBackoffMs}, {MaxMaps})
  /\ planned = 1
  /\ PushIdle
  /\ ImportIdle
  /\ LibIdle

Next ==
  \/ StartRun
  \/ \E i \in Ids :
       \/ StartItem(i)
       \/ LimiterWake(i)
       \/ CallOk(i)
       \/ CallFail(i)
       \/ BackoffWake(i)
       \/ UpdateOk(i)
       \/ UpdateFail(i)
       \/ AppendOk(i)
       \/ AppendFail(i)
       \/ CatchAppendOk(i)
       \/ CatchAppendFail(i)
  \/ Complete
  \/ Abort
  \/ Tick

Spec == Init /\ [][Next]_vars

\* One real run, one task at a time, for every retry count up to the default.
InitRetry ==
  /\ TxIdle
  /\ emaps = [i \in Ids |-> IF i <= 2 THEN NewMap(i) ELSE PushedMap(i)]
  /\ cfg \in Options({FALSE}, {1}, 0..DefaultRetries, {MinBackoffMs, DefaultBackoffMs},
                     {MaxMaps})
  /\ planned = 1
  /\ PushIdle
  /\ ImportIdle
  /\ LibIdle

SpecRetry == InitRetry /\ [][Next]_vars

\* The script run twice with the same options, real runs with --only-unsynced.
InitRerun ==
  /\ TxIdle
  /\ \E st \in [Ids -> MapStates] :
       emaps = [i \in Ids |->
                  [dir |-> st[i].dir, at |-> st[i].at, sot |-> st[i].sot,
                   masterCode |-> MasterCodeText(i)]]
  /\ cfg \in Options({FALSE}, {1}, {1}, {MinBackoffMs}, 1..MaxMaps)
  /\ planned = 2
  /\ PushIdle
  /\ ImportIdle
  /\ LibIdle

SpecRerun == InitRerun /\ [][Next]_vars

\* One run, dry or real, over two mappings that were never synced; the first one's
\* product may have an empty master_code.
InitMixed ==
  /\ TxIdle
  /\ \E code \in {"", MasterCodeText(1)} :
       emaps = [i \in Ids |-> IF i = 1 THEN [NewMap(i) EXCEPT !.masterCode = code]
                              ELSE IF i = 2 THEN NewMap(i) ELSE PushedMap(i)]
  /\ cfg \in Options(BOOLEAN, 1..2, {1}, {MinBackoffMs}, {MaxMaps})
  /\ planned = 1
  /\ PushIdle
  /\ ImportIdle
  /\ LibIdle

SpecMixed == InitMixed /\ [][Next]_vars

InitTx ==
  /\ counter \in [Cats -> PriorSeqs]
  /\ prior = counter
  /\ seqLock = [c \in Cats |-> 0]
  /\ \E corrupt \in {{}, {"CATE9"}}, pre \in SUBSET {0} :
       /\ products =
            {[id |-> 100 + CatNo(c), master_code |-> FormatMasterCode(c, counter[c])] :
               c \in {d \in Cats : counter[d] >= 1}}
            \cup {[id |-> 200 + CatNo(c), master_code |-> FormatMasterCode(c, NextSeq(c))] :
                    c \in corrupt}
       /\ maps = {[external_id |-> e, product_id |-> 300] : e \in pre}
  /\ tx = [t \in Txns |-> IdleTx]
  /\ emaps = [i \in Ids |-> NewMap(i)]
  /\ cfg = [dryRun |-> FALSE, concurrency |-> 3, retries |-> DefaultRetries,
            backoffMs |-> DefaultBackoffMs, rateLimit |-> DefaultRateLimit,
            limit |-> 100, onlyUnsynced |-> TRUE]
  /\ planned = 0
  /\ PushIdle
  /\ ImportIdle
  /\ LibIdle

NextTx ==
  \E t \in Txns :
    \/ ImportBegin(t)
    \/ PostBegin(t)
    \/ ImportFindExisting(t)
    \/ PostFindExisting(t)
    \/ Issue(t)
    \/ ImportCheckCollision(t)
    \/ ProductCreate(t)
    \/ TxCommit(t)
    \/ TxTimeout(t)

SpecTx == InitTx /\ [][NextTx]_vars

\* parseCategoryIds called once on a cell: every string up to MaxLen characters over
\* letters, blanks and commas, and cells that are not strings.
MaxLen == 5

CatChars == {"a", "b", " ", "\t", ","}

CatCells ==
  {StrCell(str) : str \in UNION {[1..n -> CatChars] : n \in 0..MaxLen}}
    \cup {NullCell, NumCell(1), BoolCell}

CategoriesCall ==
  /\ catResult = NotCalled
  /\ catResult' = parseCategoryIds(catRaw)
  /\ UNCHANGED <<txVars, pushVars, runVars, auxVars, catRaw>>

InitCategories ==
  /\ catRaw \in CatCells
  /\ catResult = NotCalled
  /\ counter = [c \in Cats |-> NULL]
  /\ prior = counter
  /\ products = {}
  /\ maps = {}
  /\ Rest
  /\ ImportIdle
  /\ AuxIdle

NextCategories == CategoriesCall

SpecCategories == InitCategories /\ [][NextCategories]_vars

\* canonicalizeOptionValue applied to a string and again to its result: every string
\* of up to MaxCanonLen characters over letters of both cases, a blank and a tab.
MaxCanonLen == 5

Called(str) == [called |-> TRUE, str |-> str]

CanonCall ==
  /\ canonOnce = NotCalled
  /\ canonOnce' = Called(canonicalizeOptionValue(canonIn))
  /\ UNCHANGED <<notCanon, canonIn, canonTwice>>

CanonAgain ==
  /\ canonOnce # NotCalled /\ canonTwice = NotCalled
  /\ canonTwice' = Called(canonicalizeOptionValue(canonOnce.str))
  /\ UNCHANGED <<notCanon, canonIn, canonOnce>>

\* An empty database, as before any import.
EmptyDb ==
  /\ counter = [c \in Cats |-> NULL]
  /\ prior = counter
  /\ products = {}
  /\ maps = {}

InitCanon ==
  /\ canonIn \in UNION {[1..n -> {"a", "B", " ", "\t"}] : n \in 0..MaxCanonLen}
  /\ canonOnce = NotCalled
  /\ canonTwice = NotCalled
  /\ EmptyDb
  /\ Rest
  /\ ImportIdle
  /\ CatIdle
  /\ ClientIdle
  /\ EnvIdle
  /\ PriceIdle
  /\ AdminIdle

NextCanon ==
  \/ CanonCall
  \/ CanonAgain

SpecCanon == InitCanon /\ [][NextCanon]_vars

\* ------------------------------------------------------------------------
\* The networked client: src/lib/imwebClient.ts, HttpImwebClient
\* ------------------------------------------------------------------------
MaxCalls == 2
MaxClock == 3

DefaultTimeoutMs == 15000
TokenSkewMs == 30000

Callers == 1..MaxCalls

\* ensureAccessToken: `this.cachedToken && this.cachedToken.expiresAt - tokenSkewMs > now`
CachedPresent == cachedToken # NoToken

CachedValid ==
  cachedToken # NoToken /\ cachedToken.expiresAt - TokenSkewMs > cnow

\* ensureAccessToken: `if (!this.inflightToken)`
AlwaysFetches == TRUE

NoneInflight == inflightToken = 0

\* The token requests whose HTTP request has been sent and not yet answered.
PendingRequests == {r \in DOMAIN tokenReqs : tokenReqs[r].state = "pending"}

\* updateProductCode up to its first suspension: a blank externalId or masterCode
\* throws; request() asks ensureAccessToken, which returns the cached token, or
\* starts fetchAccessToken when none is in flight and awaits this.inflightToken.
\* With the cached token, request() sets its timer and sends the PATCH.
CallStart(c) ==
  /\ call[c].pc = "idle"
  /\ cnow < MaxClock * DefaultTimeoutMs
  /\ \E blank \in BOOLEAN :
       IF blank
         THEN /\ call' = [call EXCEPT ![c] = [pc |-> "failed", error |-> "Error",
                                               why |-> "blank"]]
              /\ UNCHANGED <<inflightToken, tokenReqs>>
       ELSE IF CachedValid
         THEN /\ call' = [call EXCEPT ![c] = [pc |-> "patch", token |-> cachedToken.value,
                                               asked |-> 0,
                                               deadline |-> cnow + DefaultTimeoutMs]]
              /\ UNCHANGED <<inflightToken, tokenReqs>>
       ELSE IF NoneInflight
         THEN /\ tokenReqs' = Append(tokenReqs, [state |-> "pending"])
              /\ inflightToken' = Len(tokenReqs) + 1
              /\ call' = [call EXCEPT ![c] = [pc |-> "awaitToken",
                                               awaits |-> Len(tokenReqs) + 1,
                                               pendingAtEntry |-> PendingRequests]]
       ELSE /\ call' = [call EXCEPT ![c] = [pc |-> "awaitToken", awaits |-> inflightToken,
                                             pendingAtEntry |-> PendingRequests]]
            /\ UNCHANGED <<inflightToken, tokenReqs>>
  /\ UNCHANGED <<notClient, cachedToken, cnow>>

\* fetchAccessToken: the auth endpoint answers with a token, or with an error status
\* or a malformed body (ImwebApiError).
TokenResponse(r) ==
  /\ r \in DOMAIN tokenReqs /\ tokenReqs[r].state = "pending"
  /\ \/ \E e \in {10, 60} :
          tokenReqs' = [tokenReqs EXCEPT ![r] =
            [state |-> "resolved", ok |-> TRUE,
             token |-> [value |-> r, expiresAt |-> cnow + Max(1, e) * 1000]]]
     \/ tokenReqs' = [tokenReqs EXCEPT ![r] = [state |-> "resolved", ok |-> FALSE]]
  /\ UNCHANGED <<notClient, cachedToken, inflightToken, call, cnow>>

\* .then((token) => { this.cachedToken = token; return token; }); skipped on rejection.
TokenThen(r) ==
  /\ r \in DOMAIN tokenReqs /\ tokenReqs[r].state = "resolved"
  /\ tokenReqs' = [tokenReqs EXCEPT ![r].state = "then"]
  /\ cachedToken' = IF tokenReqs[r].ok THEN tokenReqs[r].token ELSE cachedToken
  /\ UNCHANGED <<notClient, inflightToken, call, cnow>>

\* .finally(() => { this.inflightToken = undefined; })
TokenFinally(r) ==
  /\ r \in DOMAIN tokenReqs /\ tokenReqs[r].state = "then"
  /\ tokenReqs' = [tokenReqs EXCEPT ![r].state = "settled"]
  /\ inflightToken' = 0
  /\ UNCHANGED <<notClient, cachedToken, call, cnow>>

\* `const token = await this.inflightToken` resumes: with the token request() sets its
\* timer and sends the PATCH; a rejection leaves request() before its try block.
TokenAwaited(c) ==
  /\ call[c].pc = "awaitToken"
  /\ tokenReqs[call[c].awaits].state = "settled"
  /\ call' = [call EXCEPT ![c] =
       IF tokenReqs[call[c].awaits].ok
         THEN [pc |-> "patch", token |-> tokenReqs[call[c].awaits].token.value,
               asked |-> call[c].awaits, deadline |-> cnow + DefaultTimeoutMs]
         ELSE [pc |-> "failed", error |-> "ImwebApiError", why |-> "token"]]
  /\ UNCHANGED <<notClient, cachedToken, inflightToken, tokenReqs, cnow>>

\* The PATCH is answered: response.ok, or a status that makes an ImwebApiError.
PatchResponse(c) ==
  /\ call[c].pc = "patch"
  /\ \E ok \in BOOLEAN :
       call' = [call EXCEPT ![c] =
         IF ok THEN [pc |-> "done", token |-> call[c].token, asked |-> call[c].asked]
         ELSE [pc |-> "failed", error |-> "ImwebApiError", why |-> "status"]]
  /\ UNCHANGED <<notClient, cachedToken, inflightToken, tokenReqs, cnow>>

\* The timer of request() fires: controller.abort() rejects the fetch with an
\* AbortError, which the catch turns into an ImwebApiError.
PatchTimeout(c) ==
  /\ call[c].pc = "patch"
  /\ cnow >= call[c].deadline
  /\ call' = [call EXCEPT ![c] = [pc |-> "failed", error |-> "ImwebApiError",
                                   why |-> "timeout"]]
  /\ UNCHANGED <<notClient, cachedToken, inflightToken, tokenReqs, cnow>>

\* Time passes, one timeout at a time.
ClockTick ==
  /\ cnow < MaxClock * DefaultTimeoutMs
  /\ cnow' = cnow + DefaultTimeoutMs
  /\ UNCHANGED <<notClient, cachedToken, inflightToken, tokenReqs, call>>

InitClient ==
  /\ cachedToken = NoToken
  /\ inflightToken = 0
  /\ tokenReqs = <<>>
  /\ call = [c \in Callers |-> NoCall]
  /\ cnow = 0
  /\ EmptyDb
  /\ Rest
  /\ ImportIdle
  /\ CatIdle
  /\ CanonIdle
  /\ EnvIdle
  /\ PriceIdle
  /\ AdminIdle

NextClient ==
  \/ \E c \in Callers : CallStart(c)
  \/ \E r \in Callers : TokenResponse(r)
  \/ \E r \in Callers : TokenThen(r)
  \/ \E r \in Callers : TokenFinally(r)
  \/ \E c \in Callers : TokenAwaited(c)
  \/ \E c \in Callers : PatchResponse(c)
  \/ \E c \in Callers : PatchTimeout(c)
  \/ ClockTick

SpecClient == InitClient /\ [][NextClient]_vars

\* The same client where the event loop runs what is ready and time goes on: promise
\* callbacks and continuations run, timers fire. Nothing makes the external system
\* answer.
SpecClientLive ==
  /\ SpecClient
  /\ \A c \in Callers : WF_vars(TokenAwaited(c)) /\ WF_vars(PatchTimeout(c))
  /\ \A r \in Callers : WF_vars(TokenThen(r)) /\ WF_vars(TokenFinally(r))
  /\ WF_vars(ClockTick)

\* ------------------------------------------------------------------------
\* createImwebClient: which client the configuration selects
\* ------------------------------------------------------------------------
DefaultBaseUrl == <<"https:", "//api.imweb.me">>

\* process.env.X ?? fallback
OrElse(value, fallback) == IF value.some THEN value.str ELSE fallback

\* new URL(value) succeeds: the text starts with a scheme.
IsUrl(value) == value # <<>> /\ Head(value) = "https:"

\* All five variables are set.
AllConfigured(e) ==
  /\ e.clientId.some /\ e.clientSecret.some /\ e.shopId.some
  /\ e.baseUrl.some /\ e.timeoutMs.some

\* clientId && clientSecret && shopId
HasCredentials(e) ==
  /\ OrElse(e.clientId, <<>>) # <<>>
  /\ OrElse(e.clientSecret, <<>>) # <<>>
  /\ OrElse(e.shopId, <<>>) # <<>>

\* process.env.IMWEB_API_BASE_URL?.trim() || 'https://api.imweb.me'
BaseUrlOf(e) ==
  IF e.baseUrl.some /\ Trim(e.baseUrl.str) # <<>> THEN Trim(e.baseUrl.str) ELSE DefaultBaseUrl

\* Number(process.env.IMWEB_API_TIMEOUT_MS ?? '15000'), replaced by 15000 unless it is
\* finite and positive (whole milliseconds: a fraction is dropped here).
TimeoutOf(e) ==
  LET timeoutMs == ToNumber(OrElse(e.timeoutMs, NatToString(DefaultTimeoutMs)))
  IN  IF timeoutMs.finite /\ ~timeoutMs.neg /\ (timeoutMs.num > 0 \/ ~timeoutMs.whole)
        THEN timeoutMs.num
        ELSE DefaultTimeoutMs

\* createImwebClient: the networked client with its config (ensureTrailingSlash writes
\* an empty path as '/' and throws on a text that is no URL), or the simulated one.
createImwebClient ==
  /\ created = NotCalled
  /\ IF HasCredentials(env)
       THEN /\ created' =
                 IF IsUrl(BaseUrlOf(env))
                   THEN [called |-> TRUE, kind |-> "http",
                         config |->
                           [baseUrl |-> IF BaseUrlOf(env)[Len(BaseUrlOf(env))] = "/"
                                          THEN BaseUrlOf(env)
                                          ELSE BaseUrlOf(env) \o <<"/">>,
                            clientId |-> env.clientId.str,
                            clientSecret |-> env.clientSecret.str,
                            shopId |-> env.shopId.str,
                            timeoutMs |-> TimeoutOf(env),
                            tokenSkewMs |-> TokenSkewMs]]
                   ELSE [called |-> TRUE, kind |-> "throw"]
            /\ UNCHANGED warnedMissingCredentials
       ELSE /\ created' = [called |-> TRUE, kind |-> "mock"]
            /\ warnedMissingCredentials' = (warnedMissingCredentials \/ ~env.nodeEnvTest)
  /\ UNCHANGED <<notEnv, env>>

\* Each credential is unset, '' or a text; the base URL unset, blank, an absolute URL or
\* a text that is no URL; the timeout unset, '', a positive number, zero or a word.
InitConfig ==
  /\ LET credential == {NoString, SomeString(<<>>), SomeString(<<"k">>)}
     IN  env \in [clientId : credential, clientSecret : credential, shopId : credential,
                  baseUrl : {NoString, SomeString(<<" ">>),
                             SomeString(<<"https:", "//shop.test", " ">>),
                             SomeString(<<"shop">>)},
                  timeoutMs : {NoString, SomeString(<<>>), SomeString(<<"5">>),
                               SomeString(<<"0">>), SomeString(<<"x">>)},
                  nodeEnvTest : BOOLEAN]
  /\ created = NotCalled
  /\ warnedMissingCredentials = FALSE
  /\ EmptyDb
  /\ Rest
  /\ ImportIdle
  /\ CatIdle
  /\ CanonIdle
  /\ ClientIdle
  /\ PriceIdle
  /\ AdminIdle

SpecConfig == InitConfig /\ [][createImwebClient]_vars

\* ------------------------------------------------------------------------
\* parsePrice on one cell
\* ------------------------------------------------------------------------
MaxPriceLen == 3

\* parsePrice returns the price or throws ImportRowError with code PRICE.
PriceCall ==
  /\ priceResult = NotCalled
  /\ priceResult' =
       IF parsePrice(priceCell).ok
         THEN [called |-> TRUE, ok |-> TRUE, price |-> parsePrice(priceCell).price]
         ELSE [called |-> TRUE, ok |-> FALSE, code |-> "PRICE"]
  /\ UNCHANGED <<notPrice, priceCell>>

InitPrice ==
  /\ priceCell \in
       {NullCell, BoolCell} \cup {NumCell(n) : n \in -1..1}
         \cup {StrCell(str) : str \in UNION {[1..n -> {"1", "0", ",", ".", "-", " ", "x"}] :
                                              n \in 0..MaxPriceLen}}
  /\ priceResult = NotCalled
  /\ EmptyDb
  /\ Rest
  /\ ImportIdle
  /\ CatIdle
  /\ CanonIdle
  /\ ClientIdle
  /\ EnvIdle
  /\ AdminIdle

SpecPrice == InitPrice /\ [][PriceCall]_vars

\* ------------------------------------------------------------------------
\* The admin API: POST /api/products and PUT /api/products/:id, beside an import run
\* ------------------------------------------------------------------------
MaxAdminCalls == 2

\* A request body that passes for a product without stock or options.
BaseForm ==
  [productId |-> <<"9">>, categoryIdsRaw |-> <<"a">>, issuedCategoryId |-> NoString,
   priceSale |-> 10, inventoryTrack |-> FALSE, stockQty |-> NULL,
   optionName |-> NoString, optionValues |-> NoString]

\* The request bodies: stock untracked with a quantity all the same; an option with two
\* spellings of one value, stock tracked without quantity; an option value with two
\* spaces inside, the code issued in category "b"; a category text without an id; the
\* product id of the sheet's first sample row; an empty product id.
AdminForms ==
  {[BaseForm EXCEPT !.stockQty = 5],
   [BaseForm EXCEPT !.inventoryTrack = TRUE, !.optionName = SomeString(<<"a">>),
                    !.optionValues = SomeString(<<"a", ",", "A">>)],
   [BaseForm EXCEPT !.productId = <<"8">>, !.issuedCategoryId = SomeString(<<"b">>),
                    !.inventoryTrack = TRUE, !.stockQty = 5,
                    !.optionName = SomeString(<<"a">>),
                    !.optionValues = SomeString(<<"a", " ", " ", "b">>)],
   [BaseForm EXCEPT !.categoryIdsRaw = <<",">>],
   [BaseForm EXCEPT !.productId = <<"1">>],
   [BaseForm EXCEPT !.productId = <<>>]}

\* productFormSchema.parse succeeds.
FormValid(form) ==
  /\ Len(form.productId) >= 1
  /\ Len(form.categoryIdsRaw) >= 1
  /\ form.priceSale >= 0
  /\ form.stockQty = NULL \/ form.stockQty >= 0

\* parseCategoryIds of @/lib/category.
AdminParseCategoryIds(raw) == parseCategoryIds(StrCell(raw))

\* result.issuedCategoryId ?? categories[0]
AdminIssuedCategory(form) ==
  OrElse(form.issuedCategoryId, AdminParseCategoryIds(form.categoryIdsRaw).ids[1])

\* result.optionName?.trim() ? result.optionName : null
AdminOptionName(form) ==
  IF form.optionName.some /\ Trim(form.optionName.str) # <<>> THEN form.optionName
  ELSE NoString

\* (result.optionValues ?? '').split(',').map((value) => value.trim()).filter(Boolean)
AdminOptionValues(form) ==
  LET parts == SplitComma(OrElse(form.optionValues, <<>>))
  IN  NonEmptyParts([k \in 1..Len(parts) |-> Trim(parts[k])])

\* The optionValues createMany data: one row per value.
AdminOptionRows(form) ==
  IF Len(AdminOptionValues(form)) > 0 /\ AdminOptionName(form).some
    THEN [k \in 1..Len(AdminOptionValues(form)) |->
            [displayValue |-> AdminOptionValues(form)[k],
             canonicalValue |-> ToUpperCase(AdminOptionValues(form)[k])]]
    ELSE <<>>

KeepsStockQty(form) == form.stockQty

\* result.inventoryTrack ? result.stockQty ?? null : null
AdminStockQty(form) == IF form.inventoryTrack THEN form.stockQty ELSE NULL

\* The id the database gives the product a POST creates.
AdminProductId == 301 + Len(adminLog)

\* POST: schema, categories, the transaction (mapping lookup, code, product with its
\* mapping and option values); every failure is answered with 400 and writes nothing.
\* The transaction runs while the import holds none open.
AdminPost(form) ==
  /\ Len(adminLog) < MaxAdminCalls
  /\ rtx.pc = "idle"
  /\ IF \/ ~FormValid(form)
        \/ ~AdminParseCategoryIds(form.categoryIdsRaw).ok
        \/ Existing(form.productId)
        \/ ~MasterCodeFree(FormatMasterCode(AdminIssuedCategory(form),
                                            NextSeq(AdminIssuedCategory(form))))
       THEN /\ adminLog' = Append(adminLog, [op |-> "POST", id |-> AdminProductId, form |-> form, status |-> 400])
            /\ UNCHANGED <<counter, products, maps>>
       ELSE /\ counter' = [counter EXCEPT ![AdminIssuedCategory(form)] =
                                             NextSeq(AdminIssuedCategory(form))]
            /\ products' = products \cup
                 {[id |-> AdminProductId,
                   master_code |-> FormatMasterCode(AdminIssuedCategory(form),
                                                    NextSeq(AdminIssuedCategory(form))),
                   category_ids |-> AdminParseCategoryIds(form.categoryIdsRaw).ids,
                   price_sale |-> form.priceSale,
                   inventory_track |-> form.inventoryTrack,
                   stock_qty |-> AdminStockQty(form),
                   option_name |-> AdminOptionName(form),
                   optionValues |-> AdminOptionRows(form),
                   images |-> NoString]}
            /\ maps' = maps \cup {[external_id |-> form.productId,
                                   product_id |-> AdminProductId]}
            /\ adminLog' = Append(adminLog, [op |-> "POST", id |-> AdminProductId, form |-> form, status |-> 201])
  /\ UNCHANGED <<prior, seqLock, tx, pushVars, catVars, runVars, canonVars, clientVars,
                 envVars, priceVars>>

\* PUT: schema, categories, the transaction (the product's option values and images
\* deleted, the product updated with the new option values); a missing product makes
\* update throw and the transaction roll back.
AdminPut(id, form) ==
  /\ Len(adminLog) < MaxAdminCalls
  /\ rtx.pc = "idle"
  /\ IF \/ ~FormValid(form)
        \/ ~AdminParseCategoryIds(form.categoryIdsRaw).ok
        \/ ~\E p \in products : p.id = id
       THEN /\ adminLog' = Append(adminLog, [op |-> "PUT", id |-> id, form |-> form, status |-> 400])
            /\ UNCHANGED products
       ELSE /\ products' =
                 {IF p.id # id THEN p
                  ELSE [p EXCEPT !.category_ids = AdminParseCategoryIds(form.categoryIdsRaw).ids,
                                 !.price_sale = form.priceSale,
                                 !.inventory_track = form.inventoryTrack,
                                 !.stock_qty = AdminStockQty(form),
                                 !.option_name = AdminOptionName(form),
                                 !.optionValues = AdminOptionRows(form),
                                 !.images = NoString] : p \in products}
            /\ adminLog' = Append(adminLog, [op |-> "PUT", id |-> id, form |-> form, status |-> 200])
  /\ UNCHANGED <<counter, maps, prior, seqLock, tx, pushVars, catVars, runVars, canonVars,
                 clientVars, envVars, priceVars>>

\* The ids a PUT may name: the products the model can hold, and one (999) of no product.
ProductIds == {2, 101, 301, 999}

\* An import run over a one-row sheet, with admin requests at any point of it, on an
\* empty database, one that holds the first row's product, or one that holds the code
\* category "a" issues next.
InitAdmin ==
  /\ rows \in {<<PlainRow(1, Str1("a"))>>, <<FullRow>>}
  /\ readable = TRUE
  /\ allowExisting = FALSE
  /\ \E imported \in BOOLEAN, corrupt \in BOOLEAN :
       ~(imported /\ corrupt) /\ ImportDb(imported, corrupt)
  /\ index = 0
  /\ imain = "none"
  /\ ireport = EmptyReport
  /\ exitCode = 0
  /\ rtx = IdleRtx
  /\ dbBefore = <<counter, products, maps>>
  /\ rowlog = <<>>
  /\ adminLog = <<>>
  /\ Rest
  /\ CatIdle
  /\ CanonIdle
  /\ ClientIdle
  /\ EnvIdle
  /\ PriceIdle

NextAdmin ==
  \/ ImportStart
  \/ RowParse
  \/ RowFindExisting
  \/ RowExisting
  \/ RowIssue
  \/ RowCheckCollision
  \/ RowCollision
  \/ RowCreate
  \/ RowDbError
  \/ ImportFinish
  \/ ReportWriteFail
  \/ \E form \in AdminForms : AdminPost(form)
  \/ \E id \in ProductIds, form \in AdminForms : AdminPut(id, form)

SpecAdmin == InitAdmin /\ [][NextAdmin]_vars

\* ------------------------------------------------------------------------
\* Claims about the issuing transactions (SpecTx)
\* ------------------------------------------------------------------------
PriorMax(c) == IF prior[c] = NULL THEN 0 ELSE prior[c]

\* Transactions that hold a sequence number of category c and were not rolled back.
Holding(c) ==
  {t \in Txns : /\ tx[t].cat = c
                /\ \/ tx[t].pc \in {"check", "create", "created"}
                   \/ tx[t].pc = "committed" /\ tx[t].result = "created"}

Issued(c) == {t \in Holding(c) : tx[t].pc = "committed"}

\* C1: for every category with prior max m, the sequence numbers of the committed
\* issuing transactions are exactly m+1 .. m+N for the N that committed, and no two
\* transactions that hold a number of the same category (committed or still running)
\* hold the same one, whatever the interleaving.
C1_DistinctContiguous ==
  \A c \in Cats :
    /\ {tx[t].seq : t \in Issued(c)} =
         (PriorMax(c) + 1)..(PriorMax(c) + Cardinality(Issued(c)))
    /\ \A t, u \in Holding(c) : t # u => tx[t].seq # tx[u].seq

\* Every transaction committed an issue for one category, and the one started first
\* received the larger number: the two overlapped.
C1_Witness ==
  \E c \in Cats :
    /\ Issued(c) = Txns
    /\ tx[1].seq > tx[2].seq

\* C2: no two committed Product rows hold the same master_code.
C2_MasterCodeUnique ==
  \A p, q \in products : p.master_code = q.master_code => p.id = q.id

\* A product was created while an insert of a code already held was refused.
C2_Witness ==
  /\ \E t \in Txns : tx[t].pc = "committed" /\ tx[t].result = "created"
  /\ \E u \in Txns : tx[u].result = "P2002_master_code"
  /\ Cardinality(products) >= 3

\* ------------------------------------------------------------------------
\* Claims about the push batch
\* ------------------------------------------------------------------------
Selected == {targets[k] : k \in DOMAIN targets}

Gap(a, b) == IF a >= b THEN a - b ELSE b - a

\* C3: running the batch twice with onlyUnsynced (real runs): the second run selects no
\* mapping the first run pushed successfully and selects every mapping whose first-run
\* attempt ended in failure.
C3_SecondRunSelection ==
  run = 2 =>
    \A i \in Ids :
      /\ prev[i] = "success" => i \notin Selected
      /\ prev[i] \in {"error", "rejected"} => i \in Selected

\* C4: the gap between the start times of any two calls the limiter released is at
\* least ceil(1000/R) ms.
C4_StartGap ==
  \A i, j \in Ids :
    (i # j /\ item[i].released # NULL /\ item[j].released # NULL)
      => Gap(item[i].released, item[j].released) >= MinInterval(cfg.rateLimit)

\* C4, as the limiter keeps it: the slots given to any two callers are at least
\* ceil(1000/R) ms apart and no call is released before its slot; a call whose timer
\* ran late starts after its slot, so two starts may be closer than the slots are.
C4_SlotGap ==
  /\ \A i \in Ids : item[i].released # NULL =>
       (item[i].slot # NULL /\ item[i].released >= item[i].slot)
  /\ \A i, j \in Ids :
       (i # j /\ item[i].slot # NULL /\ item[j].slot # NULL)
         => Gap(item[i].slot, item[j].slot) >= MinInterval(cfg.rateLimit)

C4_Witness ==
  \E i, j \in Ids :
    /\ i # j /\ item[i].released # NULL /\ item[j].released # NULL
    /\ Gap(item[i].released, item[j].released) < MinInterval(cfg.rateLimit)
    /\ Gap(item[i].slot, item[j].slot) = MinInterval(cfg.rateLimit)

\* C5: with concurrency N at most N selected candidates are inside processSingle at any
\* moment; every other selected candidate has settled or waits in p-limit's queue.
C5_ConcurrencyBound ==
  /\ ActiveCount <= cfg.concurrency
  /\ \A i \in Selected :
       \/ item[i].pc \in ActivePcs
       \/ item[i].pc \in SettledPcs
       \/ item[i].pc = "queued" /\ \E k \in DOMAIN queue : queue[k] = i

C5_Witness ==
  /\ cfg.concurrency = 2
  /\ ActiveCount = 2
  /\ queue # <<>>
  /\ \E i \in Ids : item[i].pc = "queued"

\* C6: a call that fails on every attempt is made exactly retries + 1 times before its
\* error is surfaced, after the delays backoff, 2 backoff, 4 backoff, ... (500, 1000,
\* 2000 ms for retries = 3 and backoff = 500); once an attempt has succeeded there is
\* no further attempt.
CallPassed(i) == item[i].pc \in {"update", "append", "success"} \/ item[i].err \in {"update", "append"}

C6_RetryAttempts ==
  \A i \in Ids :
    /\ item[i].err = "call" =>
         /\ item[i].attempts = cfg.retries + 1
         /\ item[i].delays = [k \in 1..cfg.retries |-> cfg.backoffMs * 2 ^ (k - 1)]
         /\ (cfg.retries = 3 /\ cfg.backoffMs = 500) => item[i].delays = <<500, 1000, 2000>>
    /\ CallPassed(i) =>
         /\ item[i].attempts = Len(item[i].delays) + 1
         /\ item[i].attempts <= cfg.retries + 1

C6_Witness ==
  \E i, j \in Ids :
    /\ cfg.retries = 3 /\ cfg.backoffMs = 500
    /\ item[i].pc = "error" /\ item[i].err = "call" /\ item[i].attempts = 4
    /\ item[j].pc = "success" /\ item[j].attempts = 2

\* C7, as stated: the delay that precedes attempt k (k >= 2) is backoff * 2^(k-1).
C7_DelayBeforeAttempt ==
  \A i \in Ids : \A k \in 2..(Len(item[i].delays) + 1) :
    item[i].delays[k - 1] = cfg.backoffMs * 2 ^ (k - 1)

\* C7, as the code computes it: runWithRetry sleeps only after a failed attempt, so
\* nothing precedes attempt 1, and the delay that precedes attempt k (k >= 2) is
\* backoff * 2^(k-2).
C7_DelayDoubles ==
  \A i \in Ids :
    /\ item[i].pc = "calling" => Len(item[i].delays) = item[i].attempts - 1
    /\ item[i].pc = "backoff" => Len(item[i].delays) = item[i].attempts
    /\ \A k \in 2..(Len(item[i].delays) + 1) :
         item[i].delays[k - 1] = cfg.backoffMs * 2 ^ (k - 2)

C7_Witness ==
  \E i \in Ids :
    /\ item[i].pc = "calling" /\ item[i].attempts = 4
    /\ item[i].delays[1] = cfg.backoffMs /\ item[i].delays[3] = 4 * cfg.backoffMs

\* C8: an item that ended in failure has one error record and its mapping's
\* last_sync_direction, last_synced_at and source_of_truth are as the run found them,
\* so the mapping is still selected under onlyUnsynced.
C8_FailureLeavesMapping ==
  \A i \in Ids :
    item[i].pc = "error" =>
      /\ report[i] = <<"error">>
      /\ emaps[i] = before[i]
      /\ Eligible(emaps[i], TRUE)

\* C9: an item that succeeded in a real run has its mapping at PUSH / the time of the
\* update / MASTER and exactly one success record; no mapping is changed except by
\* its own item's update, and no product is touched.
C9_SuccessEffect ==
  /\ \A i \in Ids :
       (~cfg.dryRun /\ item[i].pc = "success") =>
         /\ emaps[i].dir = "PUSH" /\ emaps[i].sot = "MASTER"
         /\ emaps[i].masterCode = before[i].masterCode
         /\ emaps[i].at # NULL
         /\ item[i].released <= emaps[i].at /\ emaps[i].at <= now
         /\ report[i] = <<"success">>
  /\ \A j \in Ids :
       emaps[j] # before[j] => (j \in Selected /\ ~cfg.dryRun /\ CallPassed(j)
                                /\ item[j].pc # "update" /\ item[j].err # "update")
  /\ products = {} /\ maps = {}

C9_Witness ==
  \E i, j \in Ids :
    /\ ~cfg.dryRun
    /\ item[i].pc = "success" /\ before[i].dir = "PULL" /\ emaps[i].at > before[i].at
    /\ item[j].pc = "error" /\ item[j].err = "call" /\ emaps[j] = before[j]

C11_BatchCompletion ==
  main \in {"done", "failed"} =>
    /\ \A i \in Selected : item[i].pc \in SettledPcs
    /\ success + failure = Cardinality(Selected)

\* ------------------------------------------------------------------------
\* Claims about the import run (SpecImport)
\* ------------------------------------------------------------------------
\* The rows handled so far, and what parseRow makes of the k-th row of the sheet.
HandledRows == 1..Len(rowlog)

Parsed(k) == parseRow(rows[k])

\* The errors the handled rows ended in, as the report lists them.
RECURSIVE ErrorsOf(_)
ErrorsOf(log) ==
  IF log = <<>> THEN <<>>
  ELSE LET init == ErrorsOf(SubSeq(log, 1, Len(log) - 1))
           last == log[Len(log)]
       IN  IF last.result = "error"
             THEN Append(init, [rowNumber |-> last.rowNumber, code |-> last.code])
             ELSE init

StrictCodes == {"PRODUCT_ID", "PRODUCT_NAME", "CATEGORY", "PRICE", "INVENTORY_MISMATCH",
                "OPTION_VALUES", "EXISTS"}

\* C13: a row that strict validation rejects, or whose mapping exists while
\* --allow-existing is off, stops the import: no later row of the sheet is handled.
C13_StopsAtBadRow ==
  \A k \in HandledRows :
    (rowlog[k].result = "error" /\ rowlog[k].code \in StrictCodes) =>
      /\ Len(rowlog) = k
      /\ rtx.pc = "idle"

\* C14: the written report's status is success exactly when the run finished without
\* row errors, partial exactly when it finished with at least one, failed exactly when
\* a top-level exception ended it; the exit code is non-zero exactly when the status
\* is not success.
C14_StatusAndExitCode ==
  /\ imain = "ended" =>
       /\ ireport.written
       /\ ireport.status = "success" <=>
            (readable /\ Len(rowlog) = Len(rows) /\ \A k \in HandledRows : rowlog[k].result # "error")
       /\ ireport.status = "partial" <=>
            (readable /\ Len(rowlog) = Len(rows) /\ \E k \in HandledRows : rowlog[k].result = "error")
       /\ ireport.status = "failed" <=> ~readable
       /\ exitCode # 0 <=> ireport.status # "success"
  /\ imain = "crashed" => exitCode # 0 /\ ~ireport.written

\* A sheet that could not be read: the failed report and exit code 1.
C14_Witness ==
  /\ imain = "ended" /\ ~readable
  /\ ireport.status = "failed" /\ ireport.written /\ exitCode = 1

\* The mapping of the k-th row's product id in the database the row started on.
MappedBefore(k) == \E m \in rowlog[k].before[3] : m.external_id = Parsed(k).productId

\* C15: a row whose (IMWEB, productId) mapping exists ends in an EXISTS error when
\* --allow-existing is off and is counted as skipped, without an error, when it is on;
\* either way no sequence is issued and counters, products (with their option values
\* and images) and mappings stay as they were.
C15_ExistingMapping ==
  \A k \in HandledRows :
    (Parsed(k).ok /\ ~rowlog[k].fault /\ MappedBefore(k)) =>
      /\ IF allowExisting
           THEN /\ rowlog[k].result = "skipped"
                /\ \A n \in 1..Len(ireport.errors) : ireport.errors[n].rowNumber # k + 1
                /\ ireport.skippedExisting >= 1
           ELSE /\ rowlog[k].result = "error"
                /\ rowlog[k].code = "EXISTS"
      /\ rowlog[k].seq = 0
      /\ rowlog[k].after = rowlog[k].before

\* The second row carries the product id the first row was just imported with.
C15_Witness ==
  /\ Len(rowlog) = 2
  /\ rowlog[1].result = "created"
  /\ Parsed(2).ok /\ Parsed(2).productId = Parsed(1).productId
  /\ rowlog[2].code = "EXISTS"

\* C16: a row's persistence is all-or-nothing. While its transaction runs nothing it
\* wrote is visible; a created row adds, together, the counter increment, one Product
\* with its option values and thumbnail, and its mapping; a row that ends in an error
\* or is skipped leaves counters, products and mappings as before the row.
C16_AllOrNothing ==
  /\ rtx.pc # "idle" => <<counter, products, maps>> = dbBefore
  /\ \A k \in HandledRows :
       LET e == rowlog[k]
           cat == Parsed(k).issuedCategoryId
       IN  IF e.result = "created"
             THEN /\ e.after[1] = [e.before[1] EXCEPT ![cat] = IF @ = NULL THEN 1 ELSE @ + 1]
                  /\ \E p \in e.after[2] :
                       /\ e.after[2] = e.before[2] \cup {p} /\ p \notin e.before[2]
                       /\ p.master_code = FormatMasterCode(cat, e.after[1][cat])
                       /\ p.option_name = Parsed(k).optionName
                       /\ p.optionValues = Parsed(k).optionValues
                       /\ p.images = Parsed(k).thumbnailUrl
                       /\ e.after[3] = e.before[3]
                            \cup {[external_id |-> Parsed(k).productId, product_id |-> p.id]}
                       /\ \A m \in e.before[3] : m.external_id # Parsed(k).productId
             ELSE e.after = e.before

\* A row created with option values and a thumbnail, and a row that failed after its
\* master code had been issued.
C16_Witness ==
  /\ \E k \in HandledRows :
       /\ rowlog[k].result = "created"
       /\ Len(Parsed(k).optionValues) = 2 /\ Parsed(k).thumbnailUrl.some
  /\ \E k \in HandledRows : rowlog[k].result = "error" /\ rowlog[k].seq # 0

\* A stock cell that holds something: a number, or a string that is not blank.
Present(cell) ==
  \/ cell.kind = "number"
  \/ cell.kind = "string" /\ Trim(cell.str) # <<>>

\* C17: a row that is valid up to its inventory columns, with 재고사용 N or not Y/N and
\* a stock quantity present in either stock column, ends in an INVENTORY_MISMATCH
\* error and changes nothing in the database.
C17_InventoryMismatch ==
  \A k \in HandledRows :
    LET row == rows[k]
    IN  ( /\ parseRow([row EXCEPT !.currentQty = NullCell, !.optionQty = NullCell,
                                  !.optionUsed = NullCell]).ok
          /\ ~parseYnToBoolean(row.inventoryFlag, FALSE)
          /\ (Present(row.currentQty) \/ Present(row.optionQty)) ) =>
        /\ rowlog[k].result = "error"
        /\ rowlog[k].code = "INVENTORY_MISMATCH"
        /\ rowlog[k].after = rowlog[k].before

\* The k-th row has no mapping and its next master code is free when it starts.
Importable(k) ==
  /\ ~MappedBefore(k)
  /\ LET cat == Parsed(k).issuedCategoryId
         last == rowlog[k].before[1][cat]
     IN  \A p \in rowlog[k].before[2] :
           p.master_code # FormatMasterCode(cat, IF last = NULL THEN 1 ELSE last + 1)

C19_MasterCodeCollision ==
  /\ Len(rowlog) = index
  /\ \A k \in HandledRows :
       (Parsed(k).ok /\ ~rowlog[k].fault /\ ~MappedBefore(k) /\ ~Importable(k)) =>
         /\ rowlog[k].result = "error"
         /\ rowlog[k].code = "MASTER_CODE_COLLISION"
         /\ rowlog[k].after = rowlog[k].before
         /\ \A p \in products : p.id # k + 1

\* A row ended in MASTER_CODE_COLLISION after a code had been issued for it.
C19_Witness ==
  \E k \in HandledRows :
    /\ rowlog[k].code = "MASTER_CODE_COLLISION"
    /\ rowlog[k].seq # 0

\* ------------------------------------------------------------------------
\* Claims about parseCategoryIds (SpecCategories)
\* ------------------------------------------------------------------------
\* A whitespace-normalized token: not empty, no comma, no tab, no blank at either end
\* and no two blanks in a row.
NormalizedToken(s) ==
  /\ Len(s) > 0
  /\ \A k \in 1..Len(s) : s[k] \notin {",", "\t"}
  /\ s[1] # " " /\ s[Len(s)] # " "
  /\ \A k \in 1..(Len(s) - 1) : ~(s[k] = " " /\ s[k + 1] = " ")

\* The position of the first comma-separated piece of str that normalizes to id.
FirstPiece(str, id) ==
  CHOOSE k \in 1..Len(SplitComma(str)) :
    /\ normalizeWhitespace(SplitComma(str)[k]) = id
    /\ \A j \in 1..(k - 1) : normalizeWhitespace(SplitComma(str)[j]) # id

\* C20: parseCategoryIds fails with CategoryParseError exactly when the input is not a
\* string or has no non-empty token between its commas; otherwise it returns a
\* non-empty list of whitespace-normalized tokens, each token of the input once, in the
\* order of first occurrence.
C20_ParseCategoryIds ==
  catResult # NotCalled =>
    IF catRaw.kind # "string" \/ \A k \in 1..Len(catRaw.str) : catRaw.str[k] \in {",", " ", "\t"}
      THEN catResult = CategoryParseError
      ELSE /\ catResult.ok
           /\ Len(catResult.ids) > 0
           /\ \A k \in 1..Len(catResult.ids) : NormalizedToken(catResult.ids[k])
           /\ \A j, k \in 1..Len(catResult.ids) : j # k => catResult.ids[j] # catResult.ids[k]
           /\ {catResult.ids[k] : k \in 1..Len(catResult.ids)} =
                {normalizeWhitespace(SplitComma(catRaw.str)[k]) :
                   k \in 1..Len(SplitComma(catRaw.str))} \ {<<>>}
           /\ \A j, k \in 1..Len(catResult.ids) :
                j < k => FirstPiece(catRaw.str, catResult.ids[j])
                           < FirstPiece(catRaw.str, catResult.ids[k])

\* A token given twice among three: two ids come back.
C20_Witness ==
  /\ catResult # NotCalled /\ catRaw.kind = "string"
  /\ Len(SplitComma(catRaw.str)) = 3
  /\ \A k \in 1..3 : SplitComma(catRaw.str)[k] # <<>>
  /\ catResult.ok /\ Len(catResult.ids) = 2

\* ------------------------------------------------------------------------
\* Claims about canonicalizeOptionValue (SpecCanon)
\* ------------------------------------------------------------------------
\* C21: canonicalizeOptionValue is idempotent, and its result has no whitespace at
\* either end and no two whitespace characters in a row.
C21_CanonIdempotent ==
  /\ canonOnce # NotCalled =>
       LET r == canonOnce.str
       IN  /\ r # <<>> => ~IsSpace(r[1]) /\ ~IsSpace(r[Len(r)])
           /\ \A k \in 1..(Len(r) - 1) : ~(IsSpace(r[k]) /\ IsSpace(r[k + 1]))
  /\ canonTwice # NotCalled => canonTwice.str = canonOnce.str

\* A string with a tab, doubled blanks and a lower-case letter, canonicalized twice.
C21_Witness ==
  /\ canonTwice # NotCalled
  /\ canonIn = <<" ", "a", "\t", " ", "B">>
  /\ canonOnce.str = <<"A", " ", "B">>

\* ------------------------------------------------------------------------
\* Claims about the networked client (SpecClient, SpecClientLive)
\* ------------------------------------------------------------------------
\* C22: when calls need a credential and no cached token is valid, at most one token
\* request is in flight at any moment: a call that asks while one is in flight waits
\* for that request, and every call sends its PATCH with the token of the request it
\* waited for.
C22_OneTokenRequest ==
  /\ Cardinality(PendingRequests) <= 1
  /\ \A c \in Callers :
       /\ call[c].pc = "awaitToken" =>
            /\ call[c].pendingAtEntry \subseteq {call[c].awaits}
            /\ \A d \in Callers :
                 (call[d].pc = "awaitToken" /\ {call[c].awaits, call[d].awaits} \subseteq PendingRequests)
                   => call[c].awaits = call[d].awaits
       /\ (call[c].pc \in {"patch", "done"} /\ call[c].asked # 0) =>
            /\ tokenReqs[call[c].asked].ok
            /\ call[c].token = tokenReqs[call[c].asked].token.value

\* Two calls wait for the one token request that is in flight.
C22_Witness ==
  /\ Len(tokenReqs) = 1 /\ PendingRequests = {1}
  /\ \A c \in Callers : call[c].pc = "awaitToken" /\ call[c].awaits = 1

\* C23: a networked updateProductCode call is bounded by the timeout: when the
\* external system never answers, the call still ends, as an ImwebApiError.
C23_CallEnds ==
  \A c \in Callers :
    call[c].pc \in {"awaitToken", "patch"} ~> (call[c].pc = "done" \/ (call[c].pc = "failed" /\ call[c].error = "ImwebApiError"))

\* ------------------------------------------------------------------------
\* Claims about createImwebClient (SpecConfig)
\* ------------------------------------------------------------------------
\* C24 as stated: createImwebClient gives the simulated client whenever any one of
\* base URL, client id, client secret, shop id or timeout is absent, and the networked
\* client only when all five are present.
C24_AnyAbsentIsMock ==
  LET anyAbsent == \E v \in {env.baseUrl, env.clientId, env.clientSecret, env.shopId,
                                env.timeoutMs} : ~v.some
  IN  created.called =>
        /\ anyAbsent => created.kind = "mock"
        /\ created.kind = "http" => ~anyAbsent

\* C24 as the code has it: createImwebClient gives the simulated client exactly when
\* client id, client secret or shop id is absent or empty.  Base URL and timeout are
\* optional: a missing or blank base URL is https://api.imweb.me, a missing, non-numeric
\* or non-positive timeout is 15000 ms.  With the three credentials set it gives the
\* networked client, unless the base URL is not a URL, when it throws.
C24_CredentialsSelectClient ==
  created.called =>
    /\ created.kind = "mock" <=>
         \E v \in {env.clientId, env.clientSecret, env.shopId} : ~v.some \/ v.str = <<>>
    /\ created.kind = "http" =>
         /\ ~env.baseUrl.some => created.config.baseUrl = DefaultBaseUrl \o <<"/">>
         /\ ~env.timeoutMs.some => created.config.timeoutMs = DefaultTimeoutMs
         /\ created.config.timeoutMs > 0
    /\ created.kind = "throw" => env.baseUrl.some /\ ~IsUrl(Trim(env.baseUrl.str))

\* The three credentials are set, base URL and timeout are not: the networked client.
C24_Witness ==
  /\ created.called /\ created.kind = "http"
  /\ ~env.baseUrl.some /\ ~env.timeoutMs.some

\* ------------------------------------------------------------------------
\* Claims about the push batch's selection and limiter (SpecRerun, Spec)
\* ------------------------------------------------------------------------
\* C25: a run processes at most `limit` candidates, the first ones of the eligible IMWEB
\* mappings ordered by last_synced_at ascending with never-synced mappings first and ties
\* by creation time; under onlyUnsynced a mapping is eligible exactly when its
\* last_sync_direction is not PUSH or its last_synced_at is null.
C25_SelectionOrder ==
  LET NullsFirstBefore(i, j) ==
        IF before[i].at = before[j].at THEN i < j
        ELSE IF before[i].at = NULL THEN TRUE
        ELSE IF before[j].at = NULL THEN FALSE
        ELSE before[i].at < before[j].at
      EligibleAtRead ==
        {i \in Ids : ~cfg.onlyUnsynced \/ before[i].dir # "PUSH" \/ before[i].at = NULL}
  IN
  run >= 1 =>
    /\ Len(targets) <= cfg.limit
    /\ Len(targets) = Min(cfg.limit, Cardinality(EligibleAtRead))
    /\ Selected \subseteq EligibleAtRead
    /\ \A k, l \in DOMAIN targets : k < l => NullsFirstBefore(targets[k], targets[l])
    /\ \A i \in EligibleAtRead \ Selected : \A j \in Selected : NullsFirstBefore(j, i)

\* C26 as stated: the slot a caller of RateLimiter.wait is given is
\* max(now, lastReservedSlot) + minInterval, lastReservedSlot being the slot of the
\* previous caller and minInterval = ceil(1000/R).
C26_SlotAfterInterval ==
  [][LET slots == {item[j].slot : j \in {r \in Ids : item[r].slot # NULL}}
         lastReservedSlot == CHOOSE t \in slots : \A u \in slots : u <= t
     IN  \A i \in Ids :
           (item[i].slot = NULL /\ item'[i].slot # NULL /\ slots # {}) =>
             item'[i].slot = Max(now, lastReservedSlot) + MinInterval(cfg.rateLimit)]_vars

\* C26 as the limiter computes it: the first caller's slot is the time of its call; a
\* later caller's slot is max(now, lastReservedSlot + minInterval), lastReservedSlot
\* being the slot of the previous caller and minInterval = ceil(1000/R).  What the
\* limiter keeps for the next caller is the slot just given plus minInterval.
C26_SlotFromNextAvailable ==
  [][LET slots == {item[j].slot : j \in {r \in Ids : item[r].slot # NULL}}
         lastReservedSlot == CHOOSE t \in slots : \A u \in slots : u <= t
     IN  \A i \in Ids :
           (item[i].slot = NULL /\ item'[i].slot # NULL) =>
             /\ IF slots = {} THEN item'[i].slot = now
                ELSE item'[i].slot = Max(now, lastReservedSlot + MinInterval(cfg.rateLimit))
             /\ nextAvailable' = item'[i].slot + MinInterval(cfg.rateLimit)]_vars

\* Two callers in one run: the first was given the time of its call, the second, calling
\* within the interval, the first slot plus the interval.
C26_Witness ==
  \E i, j \in Ids :
    /\ item[i].slot # NULL /\ item[j].slot # NULL
    /\ item[i].slot = item[i].released
    /\ \A k \in Ids : item[k].slot # NULL => item[i].slot <= item[k].slot
    /\ item[j].slot = item[i].slot + MinInterval(cfg.rateLimit)
    /\ nextAvailable = item[j].slot + MinInterval(cfg.rateLimit)

\* ------------------------------------------------------------------------
\* Claims about parsePrice (SpecPrice)
\* ------------------------------------------------------------------------
\* C27: every raw price cell either yields a whole number >= 0 equal to the cell's
\* numeric value with the thousands separators removed, or the PRICE error; a cell that
\* is not numeric, is empty, is negative or has a fraction is never accepted.
C27_PriceAcceptedOrRejected ==
  priceResult.called =>
    LET text == IF priceCell.kind = "string" THEN Trim(StripCommas(priceCell.str)) ELSE <<>>
        numericValue ==
          IF priceCell.kind = "number" /\ priceCell.num >= 0 THEN {priceCell.num}
          ELSE IF /\ priceCell.kind = "string" /\ text # <<>>
                  /\ ToNumber(text).finite /\ ToNumber(text).whole /\ ~ToNumber(text).neg
                 THEN {ToNumber(text).num}
          ELSE {}
    IN  /\ priceResult.ok => priceResult.price \in numericValue
        /\ ~priceResult.ok => priceResult.code = "PRICE"
        /\ numericValue = {} => ~priceResult.ok

\* ------------------------------------------------------------------------
\* Claims about the codes of the import report (SpecImport)
\* ------------------------------------------------------------------------
\* C28: every row-level error of the report carries one of the codes PRODUCT_ID,
\* PRODUCT_NAME, CATEGORY, PRICE, INVENTORY_MISMATCH, OPTION_VALUES, EXISTS,
\* MASTER_CODE_COLLISION.
C28_ErrorsAreTyped ==
  \A k \in DOMAIN ireport.errors :
    ireport.errors[k].code \in StrictCodes \cup {"MASTER_CODE_COLLISION"}

\* ------------------------------------------------------------------------
\* Claims about the stored products (SpecAdmin)
\* ------------------------------------------------------------------------
\* C29: each stored option value has canonical_value =
\* uppercase(normalizeWhitespace(display_value)), and no two option values of one
\* product and option name share a canonical_value, whether import, admin create or
\* admin update wrote them.
C29_CanonicalOptionValues ==
  \A p \in products :
    /\ \A k \in DOMAIN p.optionValues :
         p.optionValues[k].canonicalValue =
           ToUpperCase(normalizeWhitespace(p.optionValues[k].displayValue))
    /\ \A k, l \in DOMAIN p.optionValues :
         k # l => p.optionValues[k].canonicalValue # p.optionValues[l].canonicalValue

\* C30: every product has stock_qty null whenever inventory_track is false, and a
\* non-empty category list, after any sequence of import rows, admin creates and admin
\* updates.
C30_StockAndCategories ==
  \A p \in products :
    /\ ~p.inventory_track => p.stock_qty = NULL
    /\ Len(p.category_ids) > 0

\* An imported product, and an admin request that sent a stock quantity with stock
\* tracking off and was stored.
C30_Witness ==
  /\ ireport.processed >= 1
  /\ \E k \in DOMAIN adminLog :
       /\ adminLog[k].status \in {200, 201}
       /\ ~adminLog[k].form.inventoryTrack /\ adminLog[k].form.stockQty # NULL
       /\ \E p \in products : p.id = adminLog[k].id /\ p.stock_qty = NULL

\* ------------------------------------------------------------------------
\* Claims about concurrent issuing transactions, continued (SpecTx)
\* ------------------------------------------------------------------------
\* C31: in every reachable state at most one mapping exists per (IMWEB, external_id),
\* also when two import transactions, or an import and an admin create, handle one
\* external id at the same time; a transaction that lost (the id was found mapped, or
\* the insert was refused) has created no product and no mapping, and no sequence
\* number is consumed by it: each counter stands at its prior value plus the number
\* of committed creations.
C31_OneMappingPerExternalId ==
  /\ \A m, n \in maps : m.external_id = n.external_id => m = n
  /\ \A t \in Txns :
       tx[t].result \in {"EXISTS", "ERROR", "P2002_external_id"} =>
         /\ \A p \in products : p.id # t
         /\ \A m \in maps : m.product_id # t
  /\ \A c \in Cats :
       counter[c] = IF Issued(c) = {} THEN prior[c]
                    ELSE PriorMax(c) + Cardinality(Issued(c))

\* Two transactions raced for one external id: both found it unmapped, one committed
\* its product and the other's insert was refused by the unique index.
C31_Witness ==
  \E t, u \in Txns :
    /\ tx[t].pc = "committed" /\ tx[t].result = "created"
    /\ tx[u].result = "P2002_external_id"
    /\ \E m \in maps : m.product_id = t

\* C32: for every category the committed last_seq never decreases and a counter row,
\* once created, is never removed, whatever the transactions do (create, skip, fail,
\* time out); the step that creates a category's counter row leaves it at 1.
C32_CounterMonotonic ==
  [][\A c \in Cats :
       /\ counter[c] # NULL => counter'[c] # NULL /\ counter'[c] >= counter[c]
       /\ (counter[c] = NULL /\ counter'[c] # NULL) => counter'[c] = 1]_vars

\* A category without a counter row had its first issuance committed, while another
\* transaction was skipped or rolled back.
C32_Witness ==
  \E c \in Cats, t, u \in Txns :
    /\ prior[c] = NULL /\ counter[c] = 1
    /\ tx[t].pc = "committed" /\ tx[t].result = "created" /\ tx[t].cat = c
    /\ \/ tx[u].pc = "aborted"
       \/ tx[u].pc = "committed" /\ tx[u].result = "skipped"

\* ------------------------------------------------------------------------
\* Claims about the push batch, continued
\* ------------------------------------------------------------------------
\* C33: every invocation of updateProductCode, a first attempt or a retry, comes at
\* least ceil(1000 / rateLimit) ms after the invocation before it. An item that has
\* made one attempt made it when the limiter released it, so a step that invokes
\* updateProductCode must come that long after the release of every such item.
C33_CallGap ==
  [][\A i \in Ids :
       item'[i].attempts = item[i].attempts + 1 =>
         \A j \in Ids :
           (item[j].attempts = 1 /\ ~cfg.dryRun) =>
             now' - item[j].released >= MinInterval(cfg.rateLimit)]_vars

\* C34: within a run, under every interleaving of the workers, the step in which a
\* caller of wait() reserves its slot puts the slot at least minInterval after every
\* slot reserved before, and advances the limiter's clock by at least minInterval; no
\* step moves the clock back.
C34_NoDoubleBooking ==
  [][/\ nextAvailable' >= nextAvailable
     /\ \A i \in Ids :
          (item[i].slot = NULL /\ item'[i].slot # NULL) =>
            /\ nextAvailable' >= nextAvailable + MinInterval(cfg.rateLimit)
            /\ \A j \in Ids \ {i} :
                 item[j].slot # NULL =>
                   item'[i].slot - item[j].slot >= MinInterval(cfg.rateLimit)]_vars

\* Three callers reserved before any of the waiting ones resumed: two are suspended
\* in wait() at the same time, on slots one and two intervals after the first's.
C34_Witness ==
  \E i, j, k \in Ids :
    /\ item[i].slot # NULL
    /\ item[j].pc = "sleeping" /\ item[j].slot = item[i].slot + MinInterval(cfg.rateLimit)
    /\ item[k].pc = "sleeping" /\ item[k].slot = item[j].slot + MinInterval(cfg.rateLimit)
    /\ nextAvailable = item[k].slot + MinInterval(cfg.rateLimit)

\* ------------------------------------------------------------------------
\* Claims about the networked client, continued (SpecClient)
\* ------------------------------------------------------------------------
\* C35: a call that passes its argument checks takes the cached token, without a
\* token request, exactly when a token is cached and now < expiresAt - tokenSkewMs;
\* otherwise it waits for a token request, a new one unless one is in flight, and
\* sends its PATCH with that request's token. The step that settles a token request,
\* failed or not, clears the in-flight marker, which never names a settled request.
C35_TokenReuse ==
  [][/\ \A c \in Callers :
          (call[c].pc = "idle" /\ call'[c].pc \in {"patch", "awaitToken"}) =>
            IF cachedToken # NoToken /\ cnow < cachedToken.expiresAt - TokenSkewMs
              THEN /\ call'[c].pc = "patch" /\ call'[c].token = cachedToken.value
                   /\ tokenReqs' = tokenReqs
              ELSE /\ call'[c].pc = "awaitToken"
                   /\ IF inflightToken = 0
                        THEN /\ Len(tokenReqs') = Len(tokenReqs) + 1
                             /\ call'[c].awaits = Len(tokenReqs')
                             /\ tokenReqs'[call'[c].awaits].state = "pending"
                        ELSE call'[c].awaits = inflightToken /\ tokenReqs' = tokenReqs
     /\ \A c \in Callers :
          (call[c].pc = "awaitToken" /\ call'[c].pc = "patch") =>
            /\ tokenReqs[call[c].awaits].ok
            /\ call'[c].token = tokenReqs[call[c].awaits].token.value
     /\ \A r \in DOMAIN tokenReqs :
          (tokenReqs[r].state # "settled" /\ tokenReqs'[r].state = "settled") =>
            inflightToken' = 0
     /\ inflightToken' # 0 => tokenReqs'[inflightToken'].state # "settled"]_vars

\* A token that was valid for a while is cached; the clock has passed expiresAt minus
\* the margin, and the next call waits for a second token request.
C35_Witness ==
  /\ Len(tokenReqs) = 2 /\ tokenReqs[1].state = "settled" /\ tokenReqs[1].ok
  /\ cachedToken = tokenReqs[1].token
  /\ cachedToken.expiresAt - TokenSkewMs >= DefaultTimeoutMs
  /\ cnow >= cachedToken.expiresAt - TokenSkewMs
  /\ \E c \in Callers : call[c].pc = "awaitToken" /\ call[c].awaits = 2

\* C36: a step changes a mapping only in a real run, for an item whose master code
\* is not empty and whose updateProductCode call has returned in this run (the item
\* stands after runWithRetry, with at least one attempt made and nothing thrown), and
\* it sets the direction to PUSH; in a dry run, and for an item whose call failed or
\* was never made because the master code is empty, the mapping is as the run read it.
C36_PushOnlyAfterSuccess ==
  [][/\ \A i \in Ids :
          emaps'[i] # emaps[i] =>
            /\ ~cfg.dryRun /\ emaps[i].masterCode # ""
            /\ item[i].pc = "update" /\ item[i].attempts >= 1 /\ item[i].err = "none"
            /\ emaps'[i].dir = "PUSH"
     /\ \A i \in Ids :
          (cfg.dryRun \/ item'[i].err \in {"call", "master_code"}) =>
            emaps'[i] = before'[i]]_vars

\* A real run in which the item with the empty master code ended in error without a
\* call, and the other item's mapping became PUSH after its call succeeded.
C36_Witness ==
  /\ ~cfg.dryRun
  /\ item[1].pc = "error" /\ item[1].err = "master_code" /\ item[1].attempts = 0
  /\ emaps[1] = before[1] /\ emaps[1].dir = "NONE"
  /\ item[2].pc = "success" /\ emaps[2].dir = "PUSH" /\ before[2].dir = "NONE"

\* ------------------------------------------------------------------------
\* Claims about the import run, continued (SpecImport)
\* ------------------------------------------------------------------------
\* C37: in one import run with no other issuer, the k-th row created with issuing
\* category C holds sequence number (C's counter before the run) + k and leaves the
\* counter there; rows that end in error or are skipped leave every counter alone,
\* so the numbers issued per category run on without a gap in row order.
C37_GapFreePerCategory ==
  \A j \in HandledRows :
    IF rowlog[j].result = "created"
      THEN LET cat == Parsed(j).issuedCategoryId
               earlier == {i \in 1..j : /\ rowlog[i].result = "created"
                                        /\ Parsed(i).issuedCategoryId = cat}
           IN  /\ rowlog[j].seq = PriorMax(cat) + Cardinality(earlier)
               /\ rowlog[j].after[1][cat] = rowlog[j].seq
      ELSE rowlog[j].after[1] = rowlog[j].before[1]

\* The first row failed after a number had been issued for it, and the second row was
\* created in the same category with that number.
C37_Witness ==
  /\ Len(rowlog) = 2
  /\ rowlog[1].result = "error" /\ rowlog[1].seq # 0
  /\ rowlog[2].result = "created" /\ rowlog[2].seq = rowlog[1].seq
  /\ Parsed(1).issuedCategoryId = Parsed(2).issuedCategoryId

\* C38: when a product that is not of this run's making holds the master code that
\* category C's counter issued next at the start of the run, every row of the run
\* that parses, has no mapping and issues in C (and meets no database failure) ends
\* in MASTER_CODE_COLLISION and leaves C's counter where it was at the start, so the
\* product is still in the way of the row after it: the run creates no product in C.
C38_CollisionPersists ==
  \A c \in ImportCats :
    (\E p \in products :
        /\ p.master_code = FormatMasterCode(c, PriorMax(c) + 1)
        /\ p.id \notin {rowlog[j].rowNumber : j \in HandledRows}) =>
      \A k \in HandledRows :
        (/\ Parsed(k).ok /\ Parsed(k).issuedCategoryId = c
         /\ ~MappedBefore(k) /\ ~rowlog[k].fault) =>
          /\ rowlog[k].result = "error"
          /\ rowlog[k].code = "MASTER_CODE_COLLISION"
          /\ rowlog[k].after[1][c] = prior[c]
          /\ counter[c] = prior[c]

\* Two rows of the colliding category, one after the other, both ended in
\* MASTER_CODE_COLLISION with the same number issued and given back.
C38_Witness ==
  /\ Len(rowlog) = 2
  /\ \A k \in HandledRows :
       /\ rowlog[k].code = "MASTER_CODE_COLLISION"
       /\ rowlog[k].seq = PriorMax(Parsed(k).issuedCategoryId) + 1
  /\ Parsed(1).issuedCategoryId = Parsed(2).issuedCategoryId

\* C39: after each row the loop has handled, processed + skippedExisting + the number
\* of recorded errors is the number of rows handled, a created row counting as
\* processed only, a skipped one as skippedExisting only and a failed one as an error
\* only; the errors stand in row order and the error of the row at 0-based index i
\* carries rowNumber i + 2; when the run ends after the sheet was read, every row
\* has been handled, so the three add up to totalRows.
C39_RowAccounting ==
  LET rowsThat(result) == {k \in HandledRows : rowlog[k].result = result}
  IN  /\ ireport.processed + ireport.skippedExisting + Len(ireport.errors) = index
      /\ ireport.processed = Cardinality(rowsThat("created"))
      /\ ireport.skippedExisting = Cardinality(rowsThat("skipped"))
      /\ Len(ireport.errors) = Cardinality(rowsThat("error"))
      /\ {ireport.errors[e].rowNumber : e \in DOMAIN ireport.errors} =
           {(k - 1) + 2 : k \in rowsThat("error")}
      /\ \A e, f \in DOMAIN ireport.errors :
           e < f => ireport.errors[e].rowNumber < ireport.errors[f].rowNumber
      /\ (readable /\ imain \in {"ended", "crashed"}) =>
           /\ ireport.totalRows = Len(rows)
           /\ ireport.processed + ireport.skippedExisting + Len(ireport.errors)
                = ireport.totalRows

\* A finished run over two rows: the first was skipped as existing, the second failed
\* and its error carries row number 3.
C39_Witness ==
  /\ imain = "ended" /\ ireport.totalRows = 2
  /\ ireport.processed = 0 /\ ireport.skippedExisting = 1
  /\ Len(ireport.errors) = 1 /\ ireport.errors[1].rowNumber = 3

====
